---- MODULE Spec2Model ----
(***************************************************************************)
(* The dataframe-to-Kafka ingestion path of the Hopsworks feature store    *)
(* client: FeatureGroupEngine.insert, Engine.save_dataframe,               *)
(* Engine._write_dataframe_kafka and the helpers of hsfs.core.kafka_engine.*)
(* One insert call is a run of pc from "insert" to "done" or "raised";     *)
(* the feature group, the caller's options dict, the broker and the        *)
(* materialization job outlive the call and are seen by the next one.      *)
(***************************************************************************)
EXTENDS Integers, Sequences, FiniteSets, TLC

\* ---------------------------------------------------------------- bounds
MaxRows == 2
MaxBufferErrors == 2
MaxCalls == 2
\* transformation functions attached to one feature group
MaxBindings == 2
MaxEncodes == 2
\* the largest num_instances a ComponentResources object is given
MaxInstances == 2
\* queue.buffering.max.messages of the producer: produce raises BufferError
\* exactly when the producer's queue holds this many messages
QueueCapacity == 1

\* ------------------------------------------------------------ vocabulary
None == "None"

\* confluent_kafka.KafkaError codes the delivery report can carry
FatalCodes == {"TOPIC_AUTHORIZATION_FAILED", "_MSG_TIMED_OUT"}
ErrCodes == FatalCodes \cup {"MSG_SIZE_TOO_LARGE"}
AckOutcomes == {None} \cup ErrCodes

TopicName == "fg_1_onlinefs"
Partitions == {0, 1}

\* a schema is a set of <<name, type>> features
EmptySchema == {}

\* a checkpoint string "topic,p:o,p:o": the empty string is <<>>, otherwise the
\* topic name followed by one <<partition, offset>> entry per partition
EmptyCheckpoint == <<>>

VARIABLES
    fg,                  \* the FeatureGroup object (fields read or written here)
    args,                \* arguments of the current insert call
    opts,                \* the caller's write_options dict (mutated by pop)
    optsBefore,          \* write_options as the current call received it (history)
    other,               \* producer, headers and encoders held by a concurrent call
    tr,                  \* the transformation step: bindings, dataframe columns, schema
    broker,              \* topic existence and per-partition watermarks
    job,                 \* the materialization job: how many executions it has had
    outq,                \* outq[p]: messages of producer p whose delivery report is not served
    created,             \* how many online-ingestion records and encoder sets exist
    calls,               \* insert calls started so far
    component_resources, \* a ComponentResources object and the last assignment to it
    operation,           \* the operation insert handed to save_dataframe ("unset": no call yet)
    pc,                  \* position of the current call
    producer,            \* local `producer` of _write_dataframe_kafka (0: unbound)
    headers,             \* local `headers`
    writers,             \* local `feature_writers, writer` (id of the encoder set)
    initial_check_point, \* local `initial_check_point`
    cpBefore,            \* the checkpoint captured before publishing (history)
    row,                 \* number of rows whose kafka_produce call has begun
    attempts,            \* producer.produce calls made for the current row
    bufErrs,             \* BufferErrors answered for the current row
    kp,                  \* outcome of the current row's kafka_produce call
    accepted,            \* rows accepted by producer.produce, in order (history)
    sent,                \* key, value and headers of each row's kafka_produce call (history)
    enc,                 \* a row dict, its encoders and what encode_row returned for it
    acks,                \* delivery reports served in this call, by kind (history)
    exc,                 \* exception propagating out of the call (None: none)
    log,                 \* remote calls made by this call, in order (history)
    runs,                \* materialization_job.run calls of this call (history)
    consumers,           \* the consumer of each kafka_get_offsets call of this call (history)
    schedules,           \* materialization_job.schedule calls of this call (history)
    result               \* the job _write_dataframe_kafka returned, or the None save
                         \* returned in place of a job ("unset": nothing yet)

vars == <<fg, args, opts, optsBefore, other, tr, broker, job, outq, created, calls, operation, component_resources, pc, producer, headers,
          writers, initial_check_point, cpBefore, row, attempts, bufErrs, kp,
          accepted, sent, enc, acks, exc, log, consumers, runs, schedules, result>>

persistent == <<fg, opts, broker, job, outq, created>>
\* everything but the transformation step
ingestion == <<fg, args, opts, optsBefore, other, broker, job, outq, created, calls, operation, component_resources, pc,
               exc, log>>
locals == <<producer, headers, writers, initial_check_point, cpBefore, row, attempts,
            bufErrs, kp, accepted, sent, enc, acks, consumers, runs, schedules, result>>

\* --------------------------------------------------------- pure helpers
Truthy(v) == v = "True"

\* the option lookup with the legacy key start_offline_backfill read first
start_offline_materialization_backfill_first(offline_write_options) ==
    IF ~offline_write_options.is_none
    THEN IF offline_write_options.start_offline_backfill # "absent"
         THEN Truthy(offline_write_options.start_offline_backfill)
         ELSE IF offline_write_options.start_offline_materialization # "absent"
              THEN Truthy(offline_write_options.start_offline_materialization)
              ELSE TRUE
    ELSE TRUE

\* Engine._start_offline_materialization
start_offline_materialization(offline_write_options) ==
    IF ~offline_write_options.is_none
    THEN IF offline_write_options.start_offline_materialization # "absent"
         THEN Truthy(offline_write_options.start_offline_materialization)
         ELSE IF offline_write_options.start_offline_backfill # "absent"
              THEN Truthy(offline_write_options.start_offline_backfill)
              ELSE TRUE
    ELSE TRUE

\* kafka_get_offsets reading the high watermark whatever `high` says
kafka_get_offsets_always_high(b, high) ==
    IF b.exists
    THEN <<TopicName, <<0, b.high[0]>>, <<1, b.high[1]>>>>
    ELSE <<>>

\* kafka_engine.kafka_get_offsets: "" when the topic is not listed, otherwise the
\* topic name and one ",partition:offset" entry per partition; the offset is
\* get_watermark_offsets(partition)[int(high)], i.e. (low, high)[int(high)]
PartitionOrder == <<0, 1>>
kafka_get_offsets(b, high) ==
    IF b.exists
    THEN <<TopicName>> \o
         [i \in 1..Len(PartitionOrder) |->
            <<PartitionOrder[i],
              IF high THEN b.high[PartitionOrder[i]] ELSE b.low[PartitionOrder[i]]>>]
    ELSE EmptyCheckpoint

\* kafka_engine.kafka_get_offsets, lines 168-184: the consumer the call creates
\* with init_kafka_consumer. consumer.close() is called on the path where the
\* topic is listed, before the return; returned is false when list_topics never
\* ran because reading kafka_timeout from the options raised
kafka_get_offsets_consumer(b, high, returned) ==
    [high |-> high, listed |-> returned /\ b.exists, returned |-> returned,
     closed |-> returned /\ b.exists]

\* the run arguments: defaultArgs, then " -initialCheckPointString <cp>" iff cp is
\* a non-empty string
RunArgs(check_point, await) ==
    [has_check_point |-> check_point # EmptyCheckpoint,
     check_point |-> check_point,
     await_termination |-> await]

\* FeatureGroupBaseEngine._verify_schema_compatibility (not among the sources;
\* from the specification, 4.1 verifyCompatibility): fails iff some feature of
\* one list is not matched by name and type in the other
verify_schema_compatibility(existing, incoming) ==
    IF existing = incoming THEN None ELSE "SchemaMismatch"

\* a value of a row: t its Python type, v what it holds, enc how many times it
\* went through an Avro encoder. pd.Timestamp and datetime come without a
\* timezone (Timestamp, datetime) or with one (Timestamp_tz, datetime_tz).
Value(t, v) == [t |-> t, v |-> v, enc |-> 0]
Retyped(value, t) == [t |-> t, v |-> value.v, enc |-> value.enc]
Encoded(value) == [t |-> "bytes", v |-> value.v, enc |-> value.enc + 1]

\* str(value), as the key assembly and the headers take it
str(value) ==
    CASE value.t = "None" -> "None"
      [] value.t = "NA" -> "<NA>"
      [] value.t = "datetime_tz" -> value.v \o "+00:00"
      [] value.t = "Timestamp_tz" -> value.v \o "+00:00"
      [] value.t = "list" -> "[" \o value.v \o "]"
      [] value.t = "ndarray" -> "[" \o value.v \o "]"
      [] value.t = "bytes" -> "b'" \o value.v \o "'"
      [] OTHER -> value.v

\* str.encode("utf8")
encode_utf8(string) == [t |-> "bytes", v |-> string, charset |-> "utf8"]

\* kafka_engine.encode_row, lines 247-257: the four replacements made, one after
\* the other, on a value of the row dict
to_python(value) ==
    LET v1 == IF value.t = "ndarray" THEN Retyped(value, "list") ELSE value
        v2 == IF v1.t = "Timestamp" THEN Retyped(v1, "datetime")
              ELSE IF v1.t = "Timestamp_tz" THEN Retyped(v1, "datetime_tz")
              ELSE v1
        v3 == IF v2.t = "datetime" THEN Retyped(v2, "datetime_tz") ELSE v2
    IN IF v3.t = "NA" THEN [t |-> "None", v |-> "null", enc |-> v3.enc] ELSE v3

\* the encoder of a complex feature (get_encoder_func on the feature's Avro
\* schema, a nullable array, map or record) applied to a value: a list or None
\* is written; bytes, which the schema does not describe, are either refused
\* or, being a sequence of integers, written as an array again, depending on
\* the Avro library and the items of the schema; anything else is refused
feature_writer(value) ==
    CASE value.t \in {"list", "None"} ->
            {[exc |-> None, value |-> Encoded(value)]}
      [] value.t = "bytes" ->
            {[exc |-> "ValueError", value |-> value],
             [exc |-> None, value |-> Encoded(value)]}
      [] OTHER -> {[exc |-> "ValueError", value |-> value]}

\* kafka_engine.encode_complex_features: every complex feature of the row dict
\* is replaced by its encoding, in the order of the encoders; the results it
\* can have, each the exception raised and the row dict as it is left
RECURSIVE encode_complex_features(_, _)
encode_complex_features(feature_writers, row_dict) ==
    IF feature_writers = <<>>
    THEN {[exc |-> None, row |-> row_dict]}
    ELSE UNION
         {IF o.exc # None
          THEN {[exc |-> o.exc, row |-> row_dict]}
          ELSE encode_complex_features(
                   Tail(feature_writers),
                   [k \in DOMAIN row_dict |->
                      IF k = Head(feature_writers) THEN o.value ELSE row_dict[k]]) :
            o \in feature_writer(row_dict[Head(feature_writers)])}

\* the row encoder (get_encoder_func on the encoded Avro schema) applied to the
\* row dict: the bytes are made of the fields as they are found
row_writer(row_dict) ==
    [t |-> "bytes", fields |-> [k \in DOMAIN row_dict |-> row_dict[k]]]
NoBytes == [t |-> "None", fields |-> <<>>]

\* kafka_engine.encode_row: the results it can have, each the exception raised,
\* the bytes returned and the row dict of the caller as the call leaves it
encode_row(complex_feature_writers, row_dict) ==
    LET python_row == [k \in DOMAIN row_dict |-> to_python(row_dict[k])]
    IN {[exc |-> c.exc, row |-> c.row,
         encoded_row |-> IF c.exc = None THEN row_writer(c.row) ELSE NoBytes] :
           c \in encode_complex_features(complex_feature_writers, python_row)}

\* sorted(feature_group.primary_key), for names of one letter
sorted(names) ==
    SelectSeq(<<"a", "b", "c">>, LAMBDA n : \E i \in DOMAIN names : names[i] = n)

\* (mutant) the key is joined in the order the primary keys were declared
RECURSIVE assemble_key_as_declared(_, _)
assemble_key_as_declared(row_dict, primary_key) ==
    IF primary_key = <<>> THEN ""
    ELSE str(row_dict[Head(primary_key)])
            \o assemble_key_as_declared(row_dict, Tail(primary_key))

\* Engine._write_dataframe_kafka, line 1530: the key of a row
RECURSIVE join_key(_, _)
join_key(row_dict, names) ==
    IF names = <<>> THEN ""
    ELSE str(row_dict[Head(names)]) \o join_key(row_dict, Tail(names))
assemble_key(row_dict, primary_key) == join_key(row_dict, sorted(primary_key))

BaseHeaderKeys == {"projectId", "featureGroupId", "subjectId"}
\* lines 135-137 and 147: each header is str(id).encode("utf8")
HeaderValues(feature_group, keys, online_ingestion_id) ==
    [k \in keys |->
        encode_utf8(IF k = "onlineIngestionId" THEN ToString(online_ingestion_id)
                    ELSE ToString(feature_group.header_ids[k]))]

\* (mutant) the online-ingestion header is set for every feature group
get_headers_always_four(feature_group, ingestions) ==
    [keys |-> BaseHeaderKeys \cup {"onlineIngestionId"}, ingestion |-> ingestions + 1,
     values |-> HeaderValues(feature_group, BaseHeaderKeys \cup {"onlineIngestionId"},
                             ingestions + 1)]

\* kafka_engine.get_headers: three fixed headers, and onlineIngestionId backed by
\* a newly created online-ingestion record when the group is online enabled;
\* every value is str(id).encode("utf8")
NoHeaders == [keys |-> {}, ingestion |-> 0, values |-> <<>>]
get_headers(feature_group, ingestions) ==
    IF feature_group.online_enabled
    THEN [keys |-> BaseHeaderKeys \cup {"onlineIngestionId"}, ingestion |-> ingestions + 1,
          values |-> HeaderValues(feature_group,
                                  BaseHeaderKeys \cup {"onlineIngestionId"},
                                  ingestions + 1)]
    ELSE [keys |-> BaseHeaderKeys, ingestion |-> 0,
          values |-> HeaderValues(feature_group, BaseHeaderKeys, 0)]

\* the values bool(feature_group._kafka_producer) can take. None is falsy.
\* confluent_kafka.Producer defines __len__, the number of messages and requests
\* still waiting to be delivered; Python takes a non-zero length for the truth
\* of an object whose class defines no __bool__, so a producer with an empty
\* queue is falsy there, and truthy only in a build whose Producer has __bool__
ProducerTruthValues(p, q) ==
    IF p = 0 THEN {FALSE}
    ELSE IF Len(q[p]) > 0 THEN {TRUE} ELSE {TRUE, FALSE}

\* kafka_engine.init_kafka_resources / _init_kafka_resources; init_kafka_producer
\* comes first and raises KafkaException for a kafka_producer_config that
\* librdkafka refuses (exc; nothing is created or stored then)
init_kafka_resources(feature_group, offline_write_options, q, made, producer_truthy) ==
    IF feature_group.multi_part_insert /\ producer_truthy
    THEN [producer |-> feature_group.kafka_producer,
          headers |-> feature_group.kafka_headers,
          writers |-> feature_group.writers,
          fg |-> feature_group, outq |-> q, created |-> made, fresh |-> FALSE,
          exc |-> None]
    ELSE IF ~offline_write_options.is_none
            /\ offline_write_options.kafka_producer_config = "invalid"
    THEN [producer |-> 0, headers |-> NoHeaders, writers |-> 0,
          fg |-> feature_group, outq |-> q, created |-> made, fresh |-> FALSE,
          exc |-> "KafkaException"]
    ELSE LET p == Len(q) + 1
             h == get_headers(feature_group, made.ingestions)
             w == made.writer_sets + 1
             made2 == [ingestions |-> IF feature_group.online_enabled
                                      THEN made.ingestions + 1 ELSE made.ingestions,
                       writer_sets |-> w]
         IN [producer |-> p, headers |-> h, writers |-> w,
             fg |-> IF feature_group.multi_part_insert
                    THEN [feature_group EXCEPT !.kafka_producer = p,
                                               !.kafka_headers = h,
                                               !.writers = w]
                    ELSE feature_group,
             outq |-> Append(q, <<>>), created |-> made2, fresh |-> TRUE,
             exc |-> None]

\* acked with _MSG_TIMED_OUT left out of the list of codes that stop the batch
acked_ignores_timeout(err, is_multi_part_insert) ==
    IF err = "TOPIC_AUTHORIZATION_FAILED"
    THEN IF is_multi_part_insert THEN "AttributeError" ELSE "KafkaError"
    ELSE None

\* acked raising on every failed delivery report, whatever its code
acked_raises_on_any_error(err, is_multi_part_insert) ==
    IF err # None
    THEN IF is_multi_part_insert /\ err \in FatalCodes THEN "AttributeError"
         ELSE "KafkaError"
    ELSE None

\* build_ack_callback_and_optional_progress_bar.acked: the exception the callback
\* raises for delivery report `err` (None: it returns). progress_bar is None in a
\* multi-part insert, so setting its colour raises AttributeError there
acked(err, is_multi_part_insert) ==
    IF err # None /\ err \in FatalCodes
    THEN IF is_multi_part_insert THEN "AttributeError" ELSE "KafkaError"
    ELSE None

\* producer.poll / producer.flush serving the first Len(outs) delivery reports of
\* queue q with outcomes outs; the first callback that raises stops the serving
\* and its exception propagates out of poll
FirstRaise(outs, multi) ==
    LET bad == {i \in 1..Len(outs) : acked(outs[i], multi) # None}
    IN IF bad = {} THEN 0 ELSE CHOOSE i \in bad : \A j \in bad : i <= j
Serve(q, outs, multi) ==
    LET f == FirstRaise(outs, multi)
        n == IF f = 0 THEN Len(outs) ELSE f
    IN [rest |-> SubSeq(q, n + 1, Len(q)),
        delivered |-> {i \in 1..n : outs[i] = None},
        rows |-> q,
        ok |-> Cardinality({i \in 1..n : outs[i] = None}),
        nonfatal |-> Cardinality({i \in 1..n : outs[i] \in ErrCodes \ FatalCodes}),
        fatal |-> Cardinality({i \in 1..n : outs[i] \in FatalCodes}),
        exc |-> IF f = 0 THEN None ELSE acked(outs[f], multi)]

\* the producer's partitioner: a fixed function of the message key
PartitionOf(r) == r % 2

\* a broker whose log keeps only the messages of the last poll
Deliver_truncating(b, q, delivered) ==
    IF delivered = {} THEN b
    ELSE [b EXCEPT !.exists = TRUE,
                   !.high = [p \in Partitions |->
                       b.low[p] + Cardinality({i \in delivered : PartitionOf(q[i]) = p})]]

\* the broker after the messages q[i], i in delivered, were written: the topic
\* exists and each message advances the high watermark of its partition
Deliver(b, q, delivered) ==
    IF delivered = {} THEN b
    ELSE [b EXCEPT !.exists = TRUE,
                   !.high = [p \in Partitions |->
                       b.high[p] + Cardinality({i \in delivered : PartitionOf(q[i]) = p})]]

\* the outcome sequences a poll may see: any number of pending reports, served in
\* queue order
OnlyLastFatal(outs) == \A i \in 1..Len(outs) : outs[i] \in FatalCodes => i = Len(outs)
Outcomes(q) == {outs \in UNION {[1..k -> AckOutcomes] : k \in 0..Len(q)} :
                    OnlyLastFatal(outs)}
\* flush serves every pending report, unless a callback raises first
FlushOutcomes(q) == {outs \in Outcomes(q) :
                        Len(outs) = Len(q) \/ (Len(outs) > 0 /\ outs[Len(outs)] \in FatalCodes)}

AddAcks(a, s) == [ok |-> a.ok + s.ok, nonfatal |-> a.nonfatal + s.nonfatal,
                  fatal |-> a.fatal + s.fatal]

\* ------------------------------------------------------- transformations
\* hsfs.feature.Feature, as far as the schema functions read and build it
Feature(name, type, on_demand) == [name |-> name, type |-> type, on_demand |-> on_demand]

\* a TransformationFunction: tf.transformation_type and, of tf.hopsworks_udf,
\* function_name, execution_mode, transformation_features,
\* output_column_names, return_types and dropped_features
Binding(function_name, transformation_type, execution_mode, transformation_features, output_column_names, return_types, dropped_features) ==
    [function_name |-> function_name,
     transformation_type |-> transformation_type,
     execution_mode |-> execution_mode,
     transformation_features |-> transformation_features,
     output_column_names |-> output_column_names,
     return_types |-> return_types,
     dropped_features |-> dropped_features]

ToSet(seq) == {seq[i] : i \in 1..Len(seq)}
RECURSIVE Flatten(_)
Flatten(seqs) == IF seqs = <<>> THEN <<>> ELSE Head(seqs) \o Flatten(Tail(seqs))

\* (mutant) the on-demand features are taken binding by binding in reverse
update_feature_group_schema_reversed(transformation_functions, features) ==
    IF transformation_functions = <<>>
    THEN features
    ELSE LET n == Len(transformation_functions)
             transformed_features ==
                 Flatten([k \in 1..n |->
                    LET tf == transformation_functions[n + 1 - k]
                    IN [i \in 1..Len(tf.output_column_names) |->
                          Feature(tf.output_column_names[i], tf.return_types[i], TRUE)]])
             dropped_features ==
                 UNION {transformation_functions[k].dropped_features : k \in 1..n}
         IN SelectSeq(features, LAMBDA feat : feat.name \notin dropped_features)
                \o transformed_features

\* FeatureGroupEngine._update_feature_group_schema_on_demand_transformations
update_feature_group_schema_on_demand_transformations(transformation_functions, features) ==
    IF transformation_functions = <<>>
    THEN features
    ELSE LET transformed_features ==
                 Flatten([k \in 1..Len(transformation_functions) |->
                    LET tf == transformation_functions[k]
                        n == IF Len(tf.output_column_names) < Len(tf.return_types)
                             THEN Len(tf.output_column_names) ELSE Len(tf.return_types)
                    IN [i \in 1..n |->
                          Feature(tf.output_column_names[i], tf.return_types[i], TRUE)]])
             dropped_features ==
                 UNION {transformation_functions[k].dropped_features :
                           k \in 1..Len(transformation_functions)}
             updated_schema ==
                 SelectSeq(features, LAMBDA feat : feat.name \notin dropped_features)
         IN updated_schema \o transformed_features

\* dataframe[output_column_names] = ... for several outputs: a column that
\* exists is assigned where it stands, the others are appended in order
assign_columns(output_column_names, columns) ==
    columns \o SelectSeq(output_column_names, LAMBDA c : c \notin ToSet(columns))

\* dataframe[output_column_names[0]] = ... followed by lines 1401-1407 (and
\* 1475-1479): the output is in dataframe.columns once it is assigned, so it is
\* always popped and appended at the end
assign_column_last(output_column_name, columns) ==
    SelectSeq(columns, LAMBDA c : c # output_column_name) \o <<output_column_name>>

\* Engine._apply_python_udf on a pandas dataframe, as far as the columns go
apply_python_udf(hopsworks_udf, columns) ==
    IF Len(hopsworks_udf.return_types) > 1
    THEN assign_columns(hopsworks_udf.output_column_names, columns)
    ELSE assign_column_last(hopsworks_udf.output_column_names[1], columns)

\* Engine._apply_pandas_udf, as far as the columns go
apply_pandas_udf(hopsworks_udf, columns) ==
    IF Len(hopsworks_udf.return_types) > 1
    THEN assign_columns(hopsworks_udf.output_column_names, columns)
    ELSE assign_column_last(hopsworks_udf.output_column_names[1], columns)

\* Engine._apply_transformation_function, lines 1355-1367: the udf is applied in
\* its execution mode
apply_udf(hopsworks_udf, columns) ==
    IF hopsworks_udf.execution_mode = "PANDAS"
    THEN apply_pandas_udf(hopsworks_udf, columns)
    ELSE apply_python_udf(hopsworks_udf, columns)

\* what the columns hold after the udf was applied: its output columns hold
\* what the function returned, the others what they held
apply_udf_values(hopsworks_udf, values) ==
    [c \in DOMAIN values \cup ToSet(hopsworks_udf.output_column_names) |->
        IF c \in ToSet(hopsworks_udf.output_column_names)
        THEN hopsworks_udf.function_name ELSE values[c]]

\* lines 1335-1351: the features of the binding that are not columns, and the
\* message raised for them; the on-demand and the model-dependent message
\* both name the features and the function
missing_features_of(tf, columns) == tf.transformation_features \ ToSet(columns)
missing_features_message(tf) ==
    IF tf.transformation_type = "ON_DEMAND"
    THEN "not present in the dataframe being inserted into the feature group"
    ELSE "not present in the feature view"
NoError == [missing_features |-> {}, function_name |-> None, message |-> None]

\* line 1368, dataset.drop(dropped_features, axis=1): DataFrame.drop raises
\* KeyError for a label that is not a column
drop_features(columns, dropped_features) ==
    IF dropped_features \subseteq ToSet(columns)
    THEN [exc |-> None,
          columns |-> SelectSeq(columns, LAMBDA c : c \notin dropped_features)]
    ELSE [exc |-> "KeyError", columns |-> columns]

\* (mutant) a binding with a missing input is skipped and the later ones run
RECURSIVE apply_from_skipping(_, _, _, _)
apply_from_skipping(transformation_functions, k, columns, dropped_features) ==
    IF k > Len(transformation_functions)
    THEN LET d == drop_features(columns, dropped_features)
         IN [exc |-> d.exc, columns |-> d.columns, executed |-> k - 1,
             error |-> NoError]
    ELSE LET tf == transformation_functions[k]
         IN IF missing_features_of(tf, columns) # {}
            THEN apply_from_skipping(transformation_functions, k + 1, columns,
                                     dropped_features)
            ELSE apply_from_skipping(transformation_functions, k + 1,
                                     apply_udf(tf, columns),
                                     dropped_features \cup tf.dropped_features)

\* Engine._apply_transformation_function from binding k on: the columns of the
\* dataframe it returns, or the exception it raises, and how many bindings it
\* executed
RECURSIVE apply_from(_, _, _, _)
apply_from(transformation_functions, k, columns, dropped_features) ==
    IF k > Len(transformation_functions)
    THEN LET d == drop_features(columns, dropped_features)
         IN [exc |-> d.exc, columns |-> d.columns, executed |-> k - 1,
             error |-> NoError]
    ELSE LET tf == transformation_functions[k]
             missing_features == missing_features_of(tf, columns)
         IN IF missing_features # {}
            THEN [exc |-> "FeatureStoreException", columns |-> columns,
                  executed |-> k - 1,
                  error |-> [missing_features |-> missing_features,
                             function_name |-> tf.function_name,
                             message |-> missing_features_message(tf)]]
            ELSE apply_from(transformation_functions, k + 1,
                            apply_udf(tf, columns),
                            dropped_features \cup tf.dropped_features)

apply_transformation_function(transformation_functions, columns) ==
    apply_from(transformation_functions, 1, columns, {})

\* Engine.parse_schema_feature_group: one feature per column of the dataframe
ColumnType(name) == IF name = "a" THEN "bigint" ELSE "string"
parse_schema_feature_group(columns) ==
    [i \in 1..Len(columns) |-> Feature(columns[i], ColumnType(columns[i]), FALSE)]

\* no transformation is under way. columns: the dataframe as it was given;
\* dataframe, values: its columns now and what each holds; before: the columns
\* before the binding applied last; k: bindings executed; dropped: the drop-set
NoTransform == [pc |-> "idle", transformation_functions |-> <<>>, columns |-> <<>>,
                dataframe_features |-> <<>>, dataframe |-> <<>>, exc |-> None,
                k |-> 0, dropped |-> {}, before |-> <<>>, values |-> <<>>,
                error |-> NoError]

\* (mutant) each binding's dropped features are dropped as soon as it has run
ApplyTransformation_dropping_at_once ==
    /\ tr.pc = "transform" /\ tr.k < Len(tr.transformation_functions)
    /\ LET tf == tr.transformation_functions[tr.k + 1]
           missing_features == missing_features_of(tf, tr.dataframe)
       IN IF missing_features # {}
          THEN tr' = [tr EXCEPT !.pc = "raised", !.exc = "FeatureStoreException",
                                !.error = [missing_features |-> missing_features,
                                           function_name |-> tf.function_name,
                                           message |-> missing_features_message(tf)]]
          ELSE tr' = [tr EXCEPT !.k = @ + 1,
                                !.before = tr.dataframe,
                                !.dataframe =
                                    SelectSeq(apply_udf(tf, tr.dataframe),
                                              LAMBDA c : c \notin tf.dropped_features),
                                !.values = apply_udf_values(tf, tr.values),
                                !.dropped = @ \cup tf.dropped_features]
    /\ UNCHANGED ingestion
    /\ UNCHANGED locals

\* Engine._apply_transformation_function, lines 1329-1367: one pass of the loop
\* over the transformation functions
ApplyTransformation ==
    /\ tr.pc = "transform" /\ tr.k < Len(tr.transformation_functions)
    /\ LET tf == tr.transformation_functions[tr.k + 1]
           missing_features == missing_features_of(tf, tr.dataframe)
       IN IF missing_features # {}
          THEN tr' = [tr EXCEPT !.pc = "raised", !.exc = "FeatureStoreException",
                                !.error = [missing_features |-> missing_features,
                                           function_name |-> tf.function_name,
                                           message |-> missing_features_message(tf)]]
          ELSE tr' = [tr EXCEPT !.k = @ + 1,
                                !.before = tr.dataframe,
                                !.dataframe = apply_udf(tf, tr.dataframe),
                                !.values = apply_udf_values(tf, tr.values),
                                !.dropped = @ \cup tf.dropped_features]
    /\ UNCHANGED ingestion
    /\ UNCHANGED locals

\* Engine._apply_transformation_function, lines 1368-1369: after the last
\* binding the drop-set is dropped and the dataframe returned
DropFeatures ==
    /\ tr.pc = "transform" /\ tr.k = Len(tr.transformation_functions)
    /\ LET d == drop_features(tr.dataframe, tr.dropped)
       IN tr' = [tr EXCEPT !.dataframe = d.columns, !.exc = d.exc,
                           !.pc = IF d.exc = None THEN "update_schema" ELSE "raised"]
    /\ UNCHANGED ingestion
    /\ UNCHANGED locals

\* FeatureGroupEngine.insert, lines 182-186: the schema parsed from the
\* dataframe as it was given is updated with the on-demand features
UpdateSchema ==
    /\ tr.pc = "update_schema"
    /\ tr' = [tr EXCEPT
                !.dataframe_features =
                    update_feature_group_schema_on_demand_transformations(
                        tr.transformation_functions, tr.dataframe_features),
                !.pc = "done"]
    /\ UNCHANGED ingestion
    /\ UNCHANGED locals

\* ------------------------------------------ hsml.resources.ComponentResources
\* hsml.resources.Resources.__init__
Resources(cores, memory, gpus) == [cores |-> cores, memory |-> memory, gpus |-> gpus]

\* ComponentResources.__init__ given Resources instances with every field set:
\* get_obj_from_json hands them back and _fill_missing_resources has nothing
\* to fill. attributes: the instance attributes that exist; resources: what
\* the attribute _resources holds once it exists (__init__ does not create it;
\* until then the field is a placeholder nothing reads)
ComponentResources(num_instances_argument, requests_argument, limits_argument) ==
    [attributes |-> {"_num_instances", "_requests", "_limits"},
     num_instances |-> num_instances_argument,
     requests |-> requests_argument,
     limits |-> limits_argument,
     resources |-> requests_argument]

\* the property getters, lines 204-207, 213-216 and 222-225
num_instances(self) == self.num_instances
requests(self) == self.requests
limits(self) == self.limits

\* the property setters, lines 209-211, 218-220 and 227-229
num_instances_setter(self, value) ==
    [attributes |-> self.attributes, num_instances |-> value,
     requests |-> self.requests, limits |-> self.limits, resources |-> self.resources]
requests_setter(self, value) ==
    [attributes |-> self.attributes \cup {"_resources"},
     num_instances |-> self.num_instances,
     requests |-> self.requests, limits |-> self.limits, resources |-> value]
limits_setter(self, value) ==
    [attributes |-> self.attributes, num_instances |-> self.num_instances,
     requests |-> self.requests, limits |-> value, resources |-> self.resources]

\* the Resources objects and instance counts the properties are assigned
ResourceValues == {Resources(cores, 1024, gpus) : cores \in 1..2, gpus \in 0..1}
InstanceCounts == 0..MaxInstances

\* no ComponentResources object is under study
NoComponentResources == [pc |-> "none"]
\* the object self after the assignment self.<property> = value. before: the
\* object as it was before the assignment (history)
Assigned(self, property, value, before) ==
    [pc |-> "assigned", self |-> self, property |-> property, value |-> value,
     before |-> before]

\* component_resources.num_instances = value
SetNumInstances ==
    /\ component_resources.pc # "none"
    /\ \E value \in InstanceCounts :
          component_resources' =
              Assigned(num_instances_setter(component_resources.self, value),
                       "num_instances", value, component_resources.self)
    /\ UNCHANGED <<fg, args, opts, optsBefore, other, tr, broker, job, outq, created,
                   calls, operation, pc, exc, log>>
    /\ UNCHANGED locals

\* component_resources.requests = value
SetRequests ==
    /\ component_resources.pc # "none"
    /\ \E value \in ResourceValues :
          component_resources' =
              Assigned(requests_setter(component_resources.self, value),
                       "requests", value, component_resources.self)
    /\ UNCHANGED <<fg, args, opts, optsBefore, other, tr, broker, job, outq, created,
                   calls, operation, pc, exc, log>>
    /\ UNCHANGED locals

\* component_resources.limits = value
SetLimits ==
    /\ component_resources.pc # "none"
    /\ \E value \in ResourceValues :
          component_resources' =
              Assigned(limits_setter(component_resources.self, value),
                       "limits", value, component_resources.self)
    /\ UNCHANGED <<fg, args, opts, optsBefore, other, tr, broker, job, outq, created,
                   calls, operation, pc, exc, log>>
    /\ UNCHANGED locals

\* ------------------------------------------------ encode_row on its own
\* no row dict is held
NoEncoding == [feature_writers |-> <<>>, row |-> <<>>, out |-> <<>>]

\* a caller holding a row dict and the encoders calls encode_row on it, again
EncodeRow ==
    /\ enc # NoEncoding
    /\ Len(enc.out) < MaxEncodes
    /\ \E e \in encode_row(enc.feature_writers, enc.row) :
          enc' = [enc EXCEPT !.row = e.row,
                             !.out = Append(@, [exc |-> e.exc,
                                                encoded_row |-> e.encoded_row])]
    /\ UNCHANGED <<fg, args, opts, optsBefore, other, tr, broker, job, outq, created,
                   calls, operation, component_resources, pc, producer, headers, writers, initial_check_point,
                   cpBefore, row, attempts, bufErrs, kp, accepted, sent, acks, exc,
                   log, consumers, runs, schedules, result>>

\* ------------------------------------------------------------ the calls
NoAcks == [ok |-> 0, nonfatal |-> 0, fatal |-> 0]

\* the locals and the per-call history at the start of an insert call
FreshCall ==
    /\ producer = 0 /\ headers = NoHeaders /\ writers = 0
    /\ initial_check_point = EmptyCheckpoint /\ cpBefore = EmptyCheckpoint
    /\ row = 0 /\ attempts = 0 /\ bufErrs = 0 /\ kp = "idle"
    /\ accepted = <<>> /\ sent = <<>> /\ acks = NoAcks /\ exc = None /\ log = <<>>
    /\ consumers = <<>> /\ runs = <<>> /\ schedules = <<>> /\ result = "unset"

\* the same, for the call that begins in the next state
FreshCallNext ==
    /\ producer' = 0 /\ headers' = NoHeaders /\ writers' = 0
    /\ initial_check_point' = EmptyCheckpoint /\ cpBefore' = EmptyCheckpoint
    /\ row' = 0 /\ attempts' = 0 /\ bufErrs' = 0 /\ kp' = "idle"
    /\ accepted' = <<>> /\ sent' = <<>> /\ enc' = enc
    /\ acks' = NoAcks /\ exc' = None /\ log' = <<>>
    /\ consumers' = <<>> /\ runs' = <<>> /\ schedules' = <<>> /\ result' = "unset"

Raise(e) == pc' = "raised" /\ exc' = e

\* FeatureGroupEngine.save_feature_group_metadata: the exception it raises (None:
\* none) and the feature group it leaves
save_feature_group_metadata(feature_group, dataframe_features, write_options) ==
    LET mismatch == IF feature_group.features = EmptySchema THEN None
                    ELSE IF dataframe_features # EmptySchema
                         THEN verify_schema_compatibility(feature_group.features,
                                                          dataframe_features)
                         ELSE None
        schema == IF feature_group.features = EmptySchema
                  THEN dataframe_features ELSE feature_group.features
    IN IF mismatch # None
       THEN [exc |-> mismatch, fg |-> feature_group, saved |-> FALSE]
       ELSE IF feature_group.stream /\ write_options.is_none
            THEN \* write_options.pop("spark", None) on None
                 [exc |-> "AttributeError",
                  fg |-> [feature_group EXCEPT !.features = schema], saved |-> FALSE]
            ELSE [exc |-> None,
                  fg |-> [feature_group EXCEPT !.features = schema, !.id = TRUE],
                  saved |-> TRUE]

\* the features parsed from the dataframe of the call, and a feature list as
\* the names and types the schema comparison looks at
DataframeFeatures(a) ==
    [i \in 1..Len(a.columns) |->
        Feature(a.columns[i],
                (CHOOSE f \in a.df_features : f[1] = a.columns[i])[2], FALSE)]
SchemaOf(features) == {<<features[i].name, features[i].type>> : i \in 1..Len(features)}

\* what _apply_transformation_function did in the call: the bindings, the
\* dataframe given and returned, the bindings executed and the error raised
\* (the calls put the dataframe_features they go on with in its place)
Transformed(transformation_functions, a) ==
    LET r == apply_transformation_function(transformation_functions, a.columns)
    IN [NoTransform EXCEPT
          !.pc = IF r.exc = None THEN "done" ELSE "raised",
          !.transformation_functions = transformation_functions,
          !.columns = a.columns, !.dataframe = r.columns,
          !.dataframe_features = DataframeFeatures(a),
          !.exc = r.exc, !.k = r.executed, !.error = r.error]

\* the validation gate letting a rejected dataframe through in save
validation_gate_save_unchecked(entry, ge_rejected) ==
    IF ge_rejected /\ entry = "insert" THEN "DataValidationException" ELSE None

\* FeatureGroupEngine.save, lines 131-132, and insert, lines 222-231: what a
\* report with ingestion_result REJECTED does to the call
validation_gate(entry, ge_rejected) ==
    IF ge_rejected
    THEN IF entry = "insert" THEN "DataValidationException" ELSE "rejected"
    ELSE None

\* FeatureGroupEngine.save, up to the call of save_dataframe; pc = "rejected":
\* save has returned (None, ge_report)
Save ==
    /\ pc = "save"
    /\ LET features == update_feature_group_schema_on_demand_transformations(
                           fg.transformation_functions, DataframeFeatures(args))
           dataframe_features == SchemaOf(features)
           applies == fg.transformation_functions # <<>> /\ ~fg.external
           t == IF applies THEN Transformed(fg.transformation_functions, args)
                ELSE NoTransform
           meta == save_feature_group_metadata(fg, dataframe_features, opts)
           gate == validation_gate("save", args.ge_rejected)
       IN /\ tr' = [t EXCEPT !.dataframe_features = features]
          /\ IF t.exc # None
             THEN Raise(t.exc) /\ UNCHANGED <<fg, log, result>>
             ELSE /\ fg' = meta.fg
                  /\ log' = IF meta.saved THEN Append(log, "save") ELSE log
                  /\ IF meta.exc # None
                     THEN Raise(meta.exc) /\ result' = result
                     ELSE IF gate = "rejected"
                     THEN pc' = "rejected" /\ result' = "None" /\ exc' = exc
                     ELSE pc' = "save_dataframe" /\ result' = result /\ exc' = exc
    /\ UNCHANGED <<args, optsBefore, other, opts, broker, job, outq, created, calls, operation, component_resources>>
    /\ UNCHANGED <<producer, headers, writers, initial_check_point, cpBefore, row,
                   attempts, bufErrs, kp, accepted, sent, enc, acks, consumers, runs, schedules>>

\* (mutant) the caller's operation handed on whatever overwrite says
save_dataframe_operation_as_given(overwrite, operation_argument) == operation_argument

\* FeatureGroupEngine.insert, line 249: the operation save_dataframe is called
\* with, "bulk_insert" if overwrite else operation
save_dataframe_operation(overwrite, operation_argument) ==
    IF overwrite THEN "bulk_insert" ELSE operation_argument

\* FeatureGroupEngine.insert, up to the call of save_dataframe
Insert ==
    /\ pc = "insert"
    /\ LET applies == /\ ~fg.external
                      /\ fg.transformation_functions # <<>>
                      /\ args.transform
           t == IF applies THEN Transformed(fg.transformation_functions, args)
                ELSE NoTransform
           features ==
               IF applies /\ t.exc = None
               THEN update_feature_group_schema_on_demand_transformations(
                        fg.transformation_functions, DataframeFeatures(args))
               ELSE DataframeFeatures(args)
           dataframe_features == IF applies THEN SchemaOf(features) ELSE args.df_features
           meta == IF ~fg.id
                   THEN save_feature_group_metadata(fg, dataframe_features, opts)
                   ELSE [exc |-> verify_schema_compatibility(fg.features,
                                                             dataframe_features),
                         fg |-> fg, saved |-> FALSE]
           log1 == IF meta.saved THEN Append(log, "save") ELSE log
       IN /\ tr' = [t EXCEPT !.dataframe_features = features]
          /\ IF t.exc # None
             THEN Raise(t.exc) /\ UNCHANGED <<fg, log, operation>>
             ELSE /\ fg' = meta.fg
                  /\ IF meta.exc # None
                     THEN Raise(meta.exc) /\ log' = log1 /\ operation' = operation
                     ELSE IF validation_gate("insert", args.ge_rejected) # None
                     THEN /\ Raise(validation_gate("insert", args.ge_rejected))
                          /\ log' = log1 /\ operation' = operation
                     ELSE IF ~fg.online_enabled /\ args.storage = "online"
                     THEN /\ Raise("FeatureStoreException")
                          /\ log' = log1 /\ operation' = operation
                     ELSE /\ pc' = "save_dataframe"
                          /\ exc' = exc
                          /\ operation' = save_dataframe_operation(args.overwrite,
                                                                   args.operation)
                          /\ log' = IF args.overwrite THEN Append(log1, "delete_content")
                                    ELSE log1
    /\ UNCHANGED <<args, optsBefore, other, opts, broker, job, outq, created, calls,
                   component_resources>>
    /\ UNCHANGED locals

\* FeatureGroupEngine.insert_stream, lines 397-466. A group that is not saved
\* gets its metadata saved and, if it is not a stream group, save_dataframe
\* is called on create_empty_df(dataframe) (pc = "save_dataframe" with no
\* rows); every other path reaches Engine.save_stream_dataframe
\* (python.py:1236-1248), which raises NotImplementedError
InsertStream ==
    /\ pc = "insert_stream"
    /\ IF ~fg.online_enabled /\ ~fg.stream
       THEN Raise("FeatureStoreException") /\ UNCHANGED <<fg, args, log, tr>>
       ELSE LET features == update_feature_group_schema_on_demand_transformations(
                                fg.transformation_functions, DataframeFeatures(args))
                dataframe_features == SchemaOf(features)
                applies == fg.transformation_functions # <<>> /\ args.transform
                t == IF applies THEN Transformed(fg.transformation_functions, args)
                     ELSE NoTransform
                meta == IF ~fg.id
                        THEN save_feature_group_metadata(fg, dataframe_features, opts)
                        ELSE [exc |-> verify_schema_compatibility(fg.features,
                                                                  dataframe_features),
                              fg |-> fg, saved |-> FALSE]
            IN /\ tr' = [t EXCEPT !.dataframe_features = features]
               /\ IF t.exc # None
                  THEN Raise(t.exc) /\ UNCHANGED <<fg, args, log>>
                  ELSE /\ fg' = meta.fg
                       /\ log' = IF meta.saved THEN Append(log, "save") ELSE log
                       /\ IF meta.exc # None
                          THEN Raise(meta.exc) /\ args' = args
                          ELSE IF meta.saved /\ ~fg.stream
                          THEN /\ pc' = "save_dataframe" /\ exc' = exc
                               /\ args' = [args EXCEPT !.n_rows = 0]
                          ELSE Raise("NotImplementedError") /\ args' = args
    /\ UNCHANGED <<optsBefore, other, opts, broker, job, outq, created, calls, operation, component_resources>>
    /\ UNCHANGED locals

\* FeatureGroupEngine.insert_stream, lines 450-466, after save_dataframe has
\* returned from writing the empty dataframe
SaveStreamDataframe ==
    /\ pc = "done" /\ args.entry = "insert_stream"
    /\ Raise("NotImplementedError")
    /\ UNCHANGED <<fg, args, optsBefore, other, tr, opts, broker, job, outq, created, calls, operation, component_resources, log>>
    /\ UNCHANGED locals

\* Engine.save_dataframe: the Kafka path for stream groups and online-enabled
\* external groups, legacy_save_dataframe otherwise
UsesKafka(feature_group) ==
    (feature_group.external /\ feature_group.online_enabled) \/ feature_group.stream

SaveDataframe ==
    /\ pc = "save_dataframe"
    /\ IF UsesKafka(fg)
       THEN pc' = "write_kafka" /\ log' = log
       ELSE pc' = "done" /\ log' = log \o <<"ingestion", "upload", "ingestion_job_run">>
    /\ UNCHANGED <<fg, args, optsBefore, other, tr, opts, broker, job, outq, created, calls, operation, component_resources, exc>>
    /\ UNCHANGED locals

\* Engine._write_dataframe_kafka, lines 1494-1519: the resources, the checkpoint
\* before publishing, the acknowledgment callback and the row iterator
WriteKafkaInit ==
    /\ pc = "write_kafka"
    /\ \E producer_truthy \in ProducerTruthValues(fg.kafka_producer, outq) :
       LET r == init_kafka_resources(fg, opts, outq, created, producer_truthy)
       IN /\ fg' = r.fg /\ outq' = r.outq /\ created' = r.created
          /\ producer' = r.producer /\ headers' = r.headers /\ writers' = r.writers
          /\ log' = IF r.fresh THEN Append(log, "init_kafka_resources") ELSE log
          /\ IF r.exc # None
             THEN /\ Raise(r.exc)
                  /\ UNCHANGED <<initial_check_point, cpBefore, consumers>>
             ELSE IF fg.multi_part_insert
             THEN /\ initial_check_point' = EmptyCheckpoint
                  /\ consumers' = consumers
                  /\ cpBefore' = EmptyCheckpoint
                  /\ pc' = "rows" /\ exc' = exc
             ELSE IF opts.is_none
             THEN \* kafka_get_offsets: offline_write_options.get on None
                  /\ Raise("AttributeError")
                  /\ UNCHANGED <<initial_check_point, cpBefore>>
                  /\ consumers' = Append(consumers,
                                         kafka_get_offsets_consumer(broker, TRUE, FALSE))
             ELSE /\ initial_check_point' = kafka_get_offsets(broker, TRUE)
                  /\ consumers' = Append(consumers,
                                         kafka_get_offsets_consumer(broker, TRUE, TRUE))
                  /\ cpBefore' = kafka_get_offsets(broker, TRUE)
                  /\ pc' = "rows" /\ exc' = exc
    /\ UNCHANGED <<args, optsBefore, other, tr, opts, broker, job, calls, operation, component_resources, row, attempts, bufErrs, kp, accepted, sent, enc,
                   acks, runs, schedules, result>>

\* the row whose kafka_produce call is running or about to begin
RetryPending == kp = "retry"
CurrentRow == IF RetryPending THEN row ELSE row + 1
RowsLeft == pc = "rows" /\ (RetryPending \/ row < args.n_rows)

\* what kafka_produce does after producer.produce accepted the message: the
\* message is queued and poll(0) serves delivery reports
ProduceAccepted(q, r, outs, multi) ==
    LET s == Serve(Append(q, r), outs, multi)
    IN [accepted |-> <<r>>, served |-> s,
        kp |-> IF s.exc = None THEN "returned" ELSE "raised"]

\* kafka_produce leaving its loop on BufferError instead of trying the row again
ProduceBufferErrorGivesUp(q, r, outs, multi) ==
    LET s == Serve(q, outs, multi)
    IN [accepted |-> <<>>, served |-> s,
        kp |-> IF s.exc = None THEN "returned" ELSE "raised"]

\* kafka_produce trying again a row that was queued although BufferError was raised
ProduceBufferErrorAfterQueueing(q, r, outs, multi) ==
    LET s == Serve(q, outs, multi)
    IN [accepted |-> <<r>>, served |-> s,
        kp |-> IF s.exc = None THEN "retry" ELSE "raised"]

\* what kafka_produce does after producer.produce raised BufferError: nothing is
\* queued, poll(1) serves delivery reports and the loop tries the row again
ProduceBufferError(q, r, outs, multi) ==
    LET s == Serve(q, outs, multi)
    IN [accepted |-> <<>>, served |-> s,
        kp |-> IF s.exc = None THEN "retry" ELSE "raised"]

\* Engine._write_dataframe_kafka, lines 1527-1540: what kafka_produce is called
\* with for the next row (nothing new while the call for the row is retrying)
Messages ==
    IF RetryPending THEN {<<>>}
    ELSE {<<[key |-> assemble_key(e.row, fg.primary_key),
            encoded_row |-> e.encoded_row, headers |-> headers]>> :
            e \in {r \in encode_row(fg.complex_features, args.values) : r.exc = None}}

\* the state after one pass of the while loop of kafka_produce for CurrentRow
ProduceStep(res, buffer_error, message) ==
    /\ row' = CurrentRow
    /\ attempts' = (IF RetryPending THEN attempts ELSE 0) + 1
    /\ bufErrs' = (IF RetryPending THEN bufErrs ELSE 0) + (IF buffer_error THEN 1 ELSE 0)
    /\ accepted' = accepted \o res.accepted
    /\ sent' = sent \o message
    /\ enc' = enc
    /\ outq' = [outq EXCEPT ![producer] = res.served.rest]
    /\ broker' = Deliver(broker, res.served.rows, res.served.delivered)
    /\ acks' = AddAcks(acks, res.served)
    /\ kp' = res.kp
    /\ IF res.served.exc = None
       THEN pc' = pc /\ exc' = exc
       ELSE Raise(res.served.exc)

\* Engine._write_dataframe_kafka, lines 1522-1540, entering the loop body for the
\* next row with offline_write_options = None: .get("debug_kafka") raises before
\* kafka_produce is called
RowOptionsNone ==
    /\ RowsLeft /\ ~RetryPending /\ opts.is_none
    /\ \E e \in encode_row(fg.complex_features, args.values) : e.exc = None
    /\ Raise("AttributeError")
    /\ UNCHANGED <<fg, args, optsBefore, other, tr, opts, broker, job, outq, created, calls, operation, component_resources, log>>
    /\ UNCHANGED locals

\* Engine._write_dataframe_kafka, line 1527: encode_row raises what an encoder
\* raises for the next row, before its key is assembled
EncodeRowError ==
    /\ RowsLeft /\ ~RetryPending
    /\ \E e \in encode_row(fg.complex_features, args.values) :
          e.exc # None /\ Raise(e.exc)
    /\ UNCHANGED <<fg, args, optsBefore, other, tr, opts, broker, job, outq, created, calls, operation, component_resources, log>>
    /\ UNCHANGED locals

\* one pass of kafka_produce's loop in which producer.produce accepts the row
ProduceRow ==
    /\ RowsLeft /\ ~opts.is_none
    /\ Len(outq[producer]) < QueueCapacity
    /\ \E message \in Messages :
       \E outs \in Outcomes(Append(outq[producer], CurrentRow)) :
          ProduceStep(ProduceAccepted(outq[producer], CurrentRow, outs,
                                      fg.multi_part_insert), FALSE, message)
    /\ UNCHANGED <<fg, args, optsBefore, other, tr, opts, job, created, calls, operation, component_resources, log, producer, headers, writers,
                   initial_check_point, cpBefore, consumers, runs, schedules, result>>

\* one pass of kafka_produce's loop in which producer.produce raises BufferError
ProduceRowBufferError ==
    /\ RowsLeft /\ ~opts.is_none
    /\ Len(outq[producer]) >= QueueCapacity
    /\ (IF RetryPending THEN bufErrs ELSE 0) < MaxBufferErrors
    /\ \E message \in Messages :
       \E outs \in Outcomes(outq[producer]) :
          ProduceStep(ProduceBufferError(outq[producer], CurrentRow, outs,
                                         fg.multi_part_insert), TRUE, message)
    /\ UNCHANGED <<fg, args, optsBefore, other, tr, opts, job, created, calls, operation, component_resources, log, producer, headers, writers,
                   initial_check_point, cpBefore, consumers, runs, schedules, result>>

\* (mutant) the producer is flushed after the last row of a multi-part insert too
Flush_always ==
    /\ pc = "rows" /\ ~RowsLeft
    /\ \E outs \in FlushOutcomes(outq[producer]) :
          LET s == Serve(outq[producer], outs, fg.multi_part_insert)
          IN /\ outq' = [outq EXCEPT ![producer] = s.rest]
             /\ broker' = Deliver(broker, s.rows, s.delivered)
             /\ acks' = AddAcks(acks, s)
             /\ log' = Append(log, "flush")
             /\ IF s.exc = None
                THEN pc' = "materialize" /\ exc' = exc
                ELSE Raise(s.exc)
    /\ UNCHANGED <<fg, args, optsBefore, other, tr, opts, job, created, calls, operation, component_resources, producer, headers, writers,
                   initial_check_point, cpBefore, row, attempts, bufErrs, kp, accepted, sent, enc,
                   consumers, runs, schedules, result>>

\* Engine._write_dataframe_kafka, lines 1542-1546: after the last row, flush and
\* drop the producer unless this is a multi-part insert
Flush ==
    /\ pc = "rows" /\ ~RowsLeft
    /\ IF fg.multi_part_insert
       THEN /\ pc' = "materialize"
            /\ UNCHANGED <<outq, broker, acks, exc, log>>
       ELSE \E outs \in FlushOutcomes(outq[producer]) :
               LET s == Serve(outq[producer], outs, FALSE)
               IN /\ outq' = [outq EXCEPT ![producer] = s.rest]
                  /\ broker' = Deliver(broker, s.rows, s.delivered)
                  /\ acks' = AddAcks(acks, s)
                  /\ log' = Append(log, "flush")
                  /\ IF s.exc = None
                     THEN pc' = "materialize" /\ exc' = exc
                     ELSE Raise(s.exc)
    /\ UNCHANGED <<fg, args, optsBefore, other, tr, opts, job, created, calls, operation, component_resources, producer, headers, writers,
                   initial_check_point, cpBefore, row, attempts, bufErrs, kp, accepted, sent, enc,
                   consumers, runs, schedules, result>>

\* materialization_job.run handed the checkpoint the call held before publishing,
\* which is empty in the branch where the topic did not exist
first_run_check_point_before_publishing(b) == EmptyCheckpoint

\* materialization_job.run reading the checkpoint of the high watermarks instead
first_run_check_point_high(b) == kafka_get_offsets(b, TRUE)

\* Engine._write_dataframe_kafka, lines 1559-1565: the checkpoint handed to the
\* job when the topic did not exist before publishing, the low watermarks now
first_run_check_point(b) == kafka_get_offsets(b, FALSE)

\* the resume rule with the test on the job's last execution inverted
resume_check_point_unless_first(write_options, j, check_point) ==
    IF ~write_options.skip_offsets /\ j.executions = 0
    THEN EmptyCheckpoint ELSE check_point

\* Engine._write_dataframe_kafka, lines 1593-1599: the checkpoint handed to the
\* job when the topic existed; JobApi.last_execution is truthy iff the job has an
\* execution
resume_check_point(write_options, j, check_point) ==
    IF ~write_options.skip_offsets /\ j.executions > 0
    THEN EmptyCheckpoint ELSE check_point

\* the decision with the topic-did-not-exist branch taken only on request
materialization_branch_on_request(feature_group, check_point, write_options) ==
    IF feature_group.external THEN "external"
    ELSE IF start_offline_materialization(write_options)
         THEN IF check_point = EmptyCheckpoint /\ ~feature_group.multi_part_insert
              THEN "topic_missing" ELSE "requested"
         ELSE "skipped"

\* the decision without the early return for external feature groups
materialization_branch_ignoring_external(feature_group, check_point, write_options) ==
    IF check_point = EmptyCheckpoint /\ ~feature_group.multi_part_insert
    THEN "topic_missing"
    ELSE IF start_offline_materialization(write_options)
         THEN "requested" ELSE "skipped"

\* the decision taking the topic-did-not-exist branch in a multi-part insert too
materialization_branch_ignoring_multi_part(feature_group, check_point, write_options) ==
    IF feature_group.external THEN "external"
    ELSE IF check_point = EmptyCheckpoint
         THEN "topic_missing"
         ELSE IF start_offline_materialization(write_options)
              THEN "requested" ELSE "skipped"

\* Engine._write_dataframe_kafka, lines 1549, 1552 and 1592: which branch of the
\* materialization decision is taken
materialization_branch(feature_group, check_point, write_options) ==
    IF feature_group.external THEN "external"
    ELSE IF check_point = EmptyCheckpoint /\ ~feature_group.multi_part_insert
         THEN "topic_missing"
         ELSE IF start_offline_materialization(write_options)
              THEN "requested" ELSE "skipped"

\* Engine._write_dataframe_kafka, lines 1576-1590: what becomes of the popped
\* offline_backfill_every_hr. "absent": no such key, or None; "falsy": 0 or "";
\* "str", "int": a non-empty string, a non-zero int; "float": a truthy value
\* that is neither, for which cron_expression is never bound
schedule_cron(offline_backfill_every_hr) ==
    IF offline_backfill_every_hr \in {"absent", "falsy"} THEN "none"
    ELSE IF offline_backfill_every_hr \in {"str", "int"} THEN "scheduled"
    ELSE "UnboundLocalError"

\* the wait for online ingestion given up when the job run was awaited
WaitForOnlineIngestion_unless_job_awaited(feature_group, write_options, l) ==
    IF feature_group.online_enabled /\ write_options.wait_for_online_ingestion
       /\ ~(write_options.wait_for_job /\ \E i \in 1..Len(l) : l[i] = "run")
    THEN Append(l, "wait_for_completion") ELSE l

\* lines 1611-1617: the log after the optional wait for online ingestion
WaitForOnlineIngestion(feature_group, write_options, l) ==
    IF feature_group.online_enabled /\ write_options.wait_for_online_ingestion
    THEN Append(l, "wait_for_completion") ELSE l

\* Engine._write_dataframe_kafka, lines 1548-1619: the materialization decision
\* and the return value
Materialize ==
    /\ pc = "materialize"
    /\ LET branch == materialization_branch(fg, initial_check_point, opts)
       IN CASE branch = "external" ->
                 /\ pc' = "done" /\ result' = "None"
                 /\ UNCHANGED <<opts, job, initial_check_point, consumers, runs, schedules, log, exc>>
            [] branch = "topic_missing" ->
                 \* (opts is a dict here: None raised in kafka_get_offsets)
                 LET low == first_run_check_point(broker)
                     every_hr == opts.offline_backfill_every_hr
                     log1 == IF start_offline_materialization(opts)
                             THEN log \o <<"warn", "get_offsets_low", "run">>
                             ELSE log \o <<"get_offsets_low", "run">>
                     cron == schedule_cron(every_hr)
                     log2 == IF cron = "scheduled" THEN Append(log1, "schedule") ELSE log1
                 IN /\ initial_check_point' = low
                    /\ consumers' = Append(consumers, kafka_get_offsets_consumer(broker, FALSE, TRUE))
                    /\ runs' = Append(runs, RunArgs(low, opts.wait_for_job))
                    /\ job' = [job EXCEPT !.executions = @ + 1]
                    /\ opts' = [opts EXCEPT !.offline_backfill_every_hr = "absent"]
                    /\ schedules' = IF cron = "scheduled"
                                    THEN Append(schedules, every_hr) ELSE schedules
                    /\ IF cron = "UnboundLocalError"
                       THEN Raise(cron) /\ log' = log2 /\ result' = result
                       ELSE /\ log' = WaitForOnlineIngestion(fg, opts, log2)
                            /\ pc' = "done" /\ result' = "materialization_job"
                            /\ exc' = exc
            [] branch = "requested" /\ opts.is_none ->
                 \* offline_write_options.get("skip_offsets", False) on None
                 /\ Raise("AttributeError")
                 /\ UNCHANGED <<opts, job, initial_check_point, consumers, runs, schedules, log, result>>
            [] branch = "requested" /\ ~opts.is_none ->
                 LET cp == resume_check_point(opts, job, initial_check_point)
                 IN /\ initial_check_point' = cp
                    /\ consumers' = consumers
                    /\ runs' = Append(runs, RunArgs(cp, opts.wait_for_job))
                    /\ job' = [job EXCEPT !.executions = @ + 1]
                    /\ log' = WaitForOnlineIngestion(fg, opts, Append(log, "run"))
                    /\ pc' = "done" /\ result' = "materialization_job" /\ exc' = exc
                    /\ UNCHANGED <<opts, schedules>>
            [] branch = "skipped" ->
                 /\ log' = WaitForOnlineIngestion(fg, opts, log)
                 /\ pc' = "done" /\ result' = "materialization_job"
                 /\ UNCHANGED <<opts, job, initial_check_point, consumers, runs, schedules, exc>>
    /\ UNCHANGED <<fg, args, optsBefore, other, tr, broker, outq, created, calls, operation, component_resources, producer, headers, writers,
                   cpBefore, row, attempts, bufErrs, kp, accepted, sent, enc, acks>>

\* the next chunk of a multi-part insert: the caller's next insert on the same
\* feature group, with the same options dict and a new dataframe of the same
\* schema; the frame of the previous call is gone, and with it every producer the
\* feature group does not hold. (What a completed single insert leaves behind, a
\* saved group, an existing topic, an executed job, is among the initial states.)
NewCall ==
    /\ pc \in {"done", "raised"}
    /\ fg.multi_part_insert
    /\ calls < MaxCalls
    /\ calls' = calls + 1
    /\ operation' = "unset"
    /\ pc' = "insert"
    /\ \E n \in 0..MaxRows : args' = [args EXCEPT !.n_rows = n]
    /\ outq' = [p \in DOMAIN outq |-> IF p = fg.kafka_producer THEN outq[p] ELSE <<>>]
    /\ optsBefore' = opts
    /\ FreshCallNext
    /\ tr' = NoTransform
    /\ UNCHANGED <<fg, opts, other, broker, job, created, component_resources>>

\* a second _write_dataframe_kafka call on the same feature group object, made
\* by another thread of the caller, running its line 1495: init_kafka_resources
NoSession == [producer |-> 0, headers |-> NoHeaders, writers |-> 0]
OtherSessionInit ==
    /\ other = NoSession
    /\ UsesKafka(fg) /\ pc \in {"write_kafka", "rows", "materialize", "done"}
    /\ \E producer_truthy \in ProducerTruthValues(fg.kafka_producer, outq) :
       LET r == init_kafka_resources(fg, opts, outq, created, producer_truthy)
       IN /\ r.exc = None
          /\ fg' = r.fg /\ outq' = r.outq /\ created' = r.created
          /\ other' = [producer |-> r.producer, headers |-> r.headers,
                       writers |-> r.writers]
    /\ UNCHANGED <<args, optsBefore, opts, tr, broker, job, calls, operation, component_resources, pc, exc, log>>
    /\ UNCHANGED locals

\* ------------------------------------------------------- initial states
Bools == {"absent", "True", "False"}

FeatureGroup(id, features, external, stream, online_enabled, multi_part_insert) ==
    [id |-> id, features |-> features, external |-> external, stream |-> stream,
     online_enabled |-> online_enabled, multi_part_insert |-> multi_part_insert,
     kafka_producer |-> 0, kafka_headers |-> NoHeaders, writers |-> 0,
     transformation_functions |-> <<>>,
     primary_key |-> <<>>, complex_features |-> <<>>,
     header_ids |-> [projectId |-> 119, featureGroupId |-> 13, subjectId |-> 7]]

Options(som, sob, skip, every_hr, wait_job, wait_online) ==
    [is_none |-> FALSE, start_offline_materialization |-> som,
     start_offline_backfill |-> sob, skip_offsets |-> skip,
     offline_backfill_every_hr |-> every_hr, wait_for_job |-> wait_job,
     wait_for_online_ingestion |-> wait_online, kafka_producer_config |-> "absent"]


EmptyOptions == Options("absent", "absent", FALSE, "absent", FALSE, FALSE)
NoneOptions == [EmptyOptions EXCEPT !.is_none = TRUE]
\* options whose kafka_producer_config the producer refuses
InvalidProducerConfig == [EmptyOptions EXCEPT !.kafka_producer_config = "invalid"]

\* values: what every row of the dataframe holds, by column
\* entry: the operation called, "insert" or "save"; ge_rejected: the report of
\* the validation gate has ingestion_result REJECTED
\* operation: the operation argument of insert
\* columns: the columns of the dataframe, of which df_features is the parsed
\* schema; transform: the transform argument of insert and insert_stream
Arguments(entry, df_features, n_rows, overwrite, storage, ge_rejected) ==
    [entry |-> entry, df_features |-> df_features, n_rows |-> n_rows,
     overwrite |-> overwrite, storage |-> storage, ge_rejected |-> ge_rejected,
     columns |-> SelectSeq(<<"a", "b", "c">>,
                           LAMBDA c : \E f \in df_features : f[1] = c),
     transform |-> TRUE, operation |-> "upsert",
     values |-> [c \in {f[1] : f \in df_features} |-> Value("str", "x")]]

SchemaA == {<<"a", "bigint">>}
SchemaAB == {<<"a", "bigint">>, <<"b", "string">>}
SchemaA2 == {<<"a", "string">>}

NoTopic == [exists |-> FALSE, low |-> [p \in Partitions |-> 0],
            high |-> [p \in Partitions |-> 0]]
Topic(h0, h1) == [exists |-> TRUE, low |-> [p \in Partitions |-> 0],
                  high |-> [p \in Partitions |-> IF p = 0 THEN h0 ELSE h1]]

\* a topic whose retention has removed the oldest message of partition 0
TrimmedTopic == [exists |-> TRUE, low |-> [p \in Partitions |-> IF p = 0 THEN 1 ELSE 0],
                 high |-> [p \in Partitions |-> IF p = 0 THEN 2 ELSE 1]]

Scenario(f, a, o, b, j) == [fg |-> f, args |-> a, opts |-> o, broker |-> b, job |-> j]

\* stream feature groups publishing dataframes of 0..MaxRows rows in one insert
DeliveryScenarios ==
    {Scenario(FeatureGroup(TRUE, SchemaA, FALSE, TRUE, TRUE, FALSE),
              Arguments("insert", SchemaA, n, FALSE, None, FALSE),
              EmptyOptions, b, [executions |-> 0]) :
        n \in 0..MaxRows, b \in {NoTopic, Topic(1, 0)}}

\* multi-part insert sessions: up to MaxCalls chunks of 0..MaxRows rows
SessionOptions ==
    {<<EmptyOptions, 0>>, <<NoneOptions, 0>>,
     <<Options("False", "absent", FALSE, "absent", FALSE, FALSE), 0>>,
     <<Options("absent", "absent", TRUE, "int", TRUE, TRUE), 1>>}
SessionScenarios ==
    {Scenario(FeatureGroup(TRUE, SchemaA, FALSE, TRUE, TRUE, TRUE),
              Arguments("insert", SchemaA, n, FALSE, None, FALSE),
              x[1], Topic(0, 0), [executions |-> x[2]]) :
        n \in 0..MaxRows, x \in SessionOptions}
    \cup {Scenario(FeatureGroup(TRUE, SchemaA, TRUE, FALSE, TRUE, TRUE),
                   Arguments("insert", SchemaA, 1, FALSE, None, FALSE),
                   NoneOptions, Topic(0, 0), [executions |-> 0])}
    \cup {Scenario(FeatureGroup(TRUE, SchemaA, FALSE, TRUE, FALSE, TRUE),
                   Arguments("insert", SchemaA, n, FALSE, None, FALSE),
                   EmptyOptions, Topic(0, 0), [executions |-> 0]) : n \in 0..MaxRows}

\* every kind of feature group and dataframe arriving at the gates of insert
GateScenarios ==
    {Scenario(FeatureGroup(x[1], x[2], x[3][1], x[3][2], x[4], FALSE),
              Arguments("insert", x[5], 1, x[6], x[7], x[8]),
              o, Topic(0, 0), [executions |-> 1]) :
        x \in BOOLEAN \X {EmptySchema, SchemaA, SchemaAB}
              \X {<<FALSE, TRUE>>, <<FALSE, FALSE>>, <<TRUE, FALSE>>}
              \X BOOLEAN \X {EmptySchema, SchemaA, SchemaA2, SchemaAB}
              \X BOOLEAN \X {None, "online"} \X BOOLEAN,
        o \in {EmptyOptions, NoneOptions}}

\* the values of offline_backfill_every_hr, by how lines 1579-1582 treat them
BackfillIntervals == {"absent", "falsy", "int", "str", "float"}

\* every kind of feature group and dataframe arriving at the gates of save
SaveScenarios ==
    {Scenario(FeatureGroup(x[1], x[2], x[3][1], x[3][2], x[4], FALSE),
              Arguments("save", x[5], 1, FALSE, None, x[6]),
              o, NoTopic, [executions |-> 0]) :
        x \in BOOLEAN \X {EmptySchema, SchemaA, SchemaAB}
              \X {<<FALSE, TRUE>>, <<FALSE, FALSE>>, <<TRUE, FALSE>>}
              \X BOOLEAN \X {EmptySchema, SchemaA, SchemaA2, SchemaAB} \X BOOLEAN,
        o \in {EmptyOptions, NoneOptions}}

\* inserts that cannot initialise their producer
InitFailureScenarios ==
    {Scenario(FeatureGroup(id, SchemaA, k[1], k[2], k[3], multi),
              Arguments("insert", SchemaA, 1, overwrite, None, FALSE),
              InvalidProducerConfig, Topic(0, 0), [executions |-> 1]) :
        id \in BOOLEAN, overwrite \in BOOLEAN, multi \in BOOLEAN,
        k \in {<<FALSE, TRUE, TRUE>>, <<TRUE, FALSE, TRUE>>}}

\* every kind of feature group and dataframe handed to insert_stream
InsertStreamScenarios ==
    {Scenario(FeatureGroup(x[1], x[2], x[3][1], x[3][2], x[4], FALSE),
              Arguments("insert_stream", x[5], 1, FALSE, None, FALSE),
              o, Topic(0, 0), [executions |-> 0]) :
        x \in BOOLEAN \X {EmptySchema, SchemaA}
              \X {<<FALSE, TRUE>>, <<FALSE, FALSE>>, <<TRUE, FALSE>>}
              \X BOOLEAN \X {SchemaA, SchemaA2},
        o \in {EmptyOptions, NoneOptions}}

\* every combination of the options the materialization decision reads
MaterializeOptions ==
    {Options(som, sob, skip, every_hr, FALSE, FALSE) :
        som \in Bools, sob \in Bools, skip \in BOOLEAN,
        every_hr \in BackfillIntervals}
    \cup {Options("absent", "absent", FALSE, "absent", wj, wo) :
            wj \in BOOLEAN, wo \in BOOLEAN}
    \cup {NoneOptions}

MaterializeScenarios ==
    {Scenario(FeatureGroup(TRUE, SchemaA, k[1], k[2], k[3], multi),
              Arguments("insert", SchemaA, n, FALSE, None, FALSE),
              o, b, [executions |-> last]) :
        k \in {<<FALSE, TRUE, TRUE>>, <<FALSE, TRUE, FALSE>>, <<TRUE, FALSE, TRUE>>},
        multi \in {FALSE}, n \in {0, 1}, o \in MaterializeOptions,
        b \in {NoTopic, TrimmedTopic}, last \in {0, 1}}

\* the bindings a feature group can declare
Bindings ==
    {Binding(f[1], type, f[2], {f[3]}, o[1], o[2], d) :
        f \in {<<"f", "PYTHON", "a">>, <<"g", "PANDAS", "c">>},
        type \in {"ON_DEMAND"},
        o \in {<<(<<"a">>), (<<"double">>)>>, <<(<<"c">>), (<<"double">>)>>,
               <<(<<"c", "b">>), (<<"double", "string">>)>>},
        d \in {{}, {"a"}, {"c"}}}
\* the bindings of a feature group are on-demand, those of a feature view
\* model-dependent
WithType(tfs, type) == [k \in 1..Len(tfs) |-> [tfs[k] EXCEPT !.transformation_type = type]]
BindingLists ==
    {WithType(tfs, type) :
        tfs \in UNION {[1..n -> Bindings] : n \in 0..MaxBindings},
        type \in {"ON_DEMAND", "MODEL_DEPENDENT"}}
\* the dataframes the bindings are applied to on their own
Dataframes == {<<"a">>, <<"a", "b">>, <<"b", "a">>, <<"c", "a">>}

\* feature groups with on-demand bindings of one output each, saved or not,
\* external or not, given a dataframe with the column a by save, insert and
\* insert_stream, with and without transform
ScenarioBindings ==
    {tf \in Bindings : tf.dropped_features = {} /\ Len(tf.output_column_names) = 1}
ScenarioBindingLists ==
    {WithType(tfs, type) :
        tfs \in UNION {[1..n -> ScenarioBindings] : n \in 1..MaxBindings},
        type \in {"ON_DEMAND", "MODEL_DEPENDENT"}}
\* id, external, the operation called and its transform argument
TransformCalls ==
    {<<FALSE, FALSE, "save", TRUE>>, <<FALSE, TRUE, "save", TRUE>>,
     <<FALSE, FALSE, "insert", TRUE>>, <<TRUE, FALSE, "insert", TRUE>>,
     <<FALSE, TRUE, "insert", TRUE>>, <<FALSE, FALSE, "insert", FALSE>>,
     <<FALSE, FALSE, "insert_stream", TRUE>>, <<FALSE, FALSE, "insert_stream", FALSE>>}
TransformScenarios ==
    {Scenario([FeatureGroup(c[1], IF c[1] THEN SchemaA ELSE EmptySchema,
                            c[2], ~c[2], TRUE, FALSE)
                  EXCEPT !.transformation_functions = tfs],
              [Arguments(c[3], SchemaA, 1, FALSE, None, FALSE)
                  EXCEPT !.transform = c[4]],
              EmptyOptions, Topic(0, 0), [executions |-> 0]) :
        c \in TransformCalls, tfs \in ScenarioBindingLists}

\* stream feature groups with one or two primary keys, declared in either
\* order, and possibly a complex feature, publishing rows of every kind of value
KeyValues ==
    {Value("str", ""), Value("str", "x"), Value("NA", "<NA>"),
     Value("Timestamp", "2024-01-01 00:00:00")}
ComplexValues == {Value("ndarray", "1, 2"), Value("list", "1, 2"), Value("str", "x")}
KeyScenarios ==
    {Scenario([FeatureGroup(TRUE, SchemaAB, FALSE, TRUE, TRUE, FALSE)
                  EXCEPT !.primary_key = pk],
              [Arguments("insert", SchemaAB, 1, FALSE, None, FALSE)
                  EXCEPT !.values = [c \in {"a", "b"} |-> IF c = "a" THEN a ELSE b]],
              EmptyOptions, Topic(0, 0), [executions |-> 0]) :
        pk \in {<<"a">>, <<"a", "b">>, <<"b", "a">>},
        a \in KeyValues, b \in KeyValues}
    \cup
    {Scenario([FeatureGroup(TRUE, SchemaA, FALSE, TRUE, online, FALSE)
                  EXCEPT !.primary_key = <<"a">>],
              Arguments("insert", SchemaA, 2, FALSE, None, FALSE),
              EmptyOptions, Topic(0, 0), [executions |-> 0]) :
        online \in BOOLEAN}
    \cup
    {Scenario([FeatureGroup(TRUE, SchemaAB, FALSE, TRUE, TRUE, FALSE)
                  EXCEPT !.primary_key = <<"a">>, !.complex_features = <<"b">>],
              [Arguments("insert", SchemaAB, 1, FALSE, None, FALSE)
                  EXCEPT !.values = [c \in {"a", "b"} |->
                                        IF c = "a" THEN Value("str", "x") ELSE b]],
              o, Topic(0, 0), [executions |-> 0]) :
        b \in ComplexValues, o \in {EmptyOptions, NoneOptions}}

Scenarios ==
    DeliveryScenarios \cup SessionScenarios \cup GateScenarios \cup SaveScenarios
    \cup InsertStreamScenarios \cup InitFailureScenarios \cup MaterializeScenarios
    \cup TransformScenarios \cup KeyScenarios

\* two calls at a time on one stream feature group, in and outside a multi-part
\* insert
IsolationScenarios ==
    {Scenario(FeatureGroup(TRUE, SchemaA, FALSE, TRUE, online, multi),
              Arguments("insert", SchemaA, n, FALSE, None, FALSE),
              EmptyOptions, Topic(0, 0), [executions |-> 0]) :
        online \in BOOLEAN, multi \in BOOLEAN, n \in 0..1}

InitFrom(S) ==
    /\ \E s \in S :
          fg = s.fg /\ args = s.args /\ opts = s.opts /\ broker = s.broker /\ job = s.job
          /\ optsBefore = s.opts
    /\ outq = <<>>
    /\ created = [ingestions |-> 0, writer_sets |-> 0]
    /\ calls = 1
    /\ operation = "unset"
    /\ other = NoSession
    /\ pc = args.entry
    /\ FreshCall

Init ==
    /\ InitFrom(Scenarios) /\ tr = NoTransform /\ enc = NoEncoding
    /\ component_resources = NoComponentResources

Next ==
    \/ Save
    \/ Insert
    \/ InsertStream
    \/ SaveStreamDataframe
    \/ SaveDataframe
    \/ WriteKafkaInit
    \/ RowOptionsNone
    \/ EncodeRowError
    \/ ProduceRow
    \/ ProduceRowBufferError
    \/ Flush
    \/ Materialize
    \/ NewCall

Spec == Init /\ [][Next]_vars

\* the ingestion path with a concurrent call on the same feature group
InitSessions ==
    /\ InitFrom(IsolationScenarios) /\ tr = NoTransform /\ enc = NoEncoding
    /\ component_resources = NoComponentResources
NextSessions ==
    \/ Insert
    \/ SaveDataframe
    \/ WriteKafkaInit
    \/ ProduceRow
    \/ ProduceRowBufferError
    \/ Flush
    \/ Materialize
    \/ NewCall
    \/ OtherSessionInit
SpecSessions == InitSessions /\ [][NextSessions]_vars

\* ----------------------------------------------------------- properties
Occurrences(seq, x) == Cardinality({i \in 1..Len(seq) : seq[i] = x})
CallbackExceptions == {"KafkaError", "AttributeError"}
GateExceptions == {"SchemaMismatch", "DataValidationException", "FeatureStoreException"}
\* the current call went down the Kafka path and _write_dataframe_kafka returned
KafkaDone == pc = "done" /\ UsesKafka(fg)
RowOrder(n) == [i \in 1..n |-> i]

\* C1 (as claimed): whenever the producer has accepted the current row after N
\* BufferErrors, kafka_produce has returned normally, after exactly N+1 produce
\* attempts, with the row accepted once and nothing raised to the caller.
C1_Original ==
    (kp \in {"returned", "raised"} /\ Occurrences(accepted, row) >= 1)
        => (kp = "returned" /\ attempts = bufErrs + 1
            /\ Occurrences(accepted, row) = 1)

\* C1 (amended): after N BufferErrors and an accepting produce, exactly N+1 produce
\* attempts were made on the row and it was accepted once; a row still being
\* retried was attempted N times and not accepted; BufferError is never raised;
\* kafka_produce raises only what the acknowledgment callback raised while one of
\* its polls served a delivery report with a fatal code, and returns otherwise.
C1_RetryUntilAccepted ==
    /\ kp = "returned" => (attempts = bufErrs + 1 /\ Occurrences(accepted, row) = 1)
    /\ kp = "retry" => (attempts = bufErrs /\ Occurrences(accepted, row) = 0
                         /\ pc = "rows" /\ exc = None)
    /\ kp = "raised" => (acks.fatal > 0 /\ exc \in CallbackExceptions
                          /\ attempts - bufErrs = Occurrences(accepted, row)
                          /\ attempts - bufErrs \in {0, 1})
    /\ (pc = "rows" /\ acks.fatal = 0) => exc = None
    /\ bufErrs <= attempts

C1_Witness ==
    kp = "returned" /\ bufErrs = MaxBufferErrors /\ attempts = MaxBufferErrors + 1
    /\ pc = "rows" /\ exc = None

\* C2: the rows accepted by the producer are always the first rows of the
\* dataframe in iteration order, each once, and when _write_dataframe_kafka
\* completes without raising they are all the rows of the dataframe.
C2_PublicationOrder ==
    /\ accepted = RowOrder(Len(accepted))
    /\ Len(accepted) <= args.n_rows
    /\ (pc \in {"materialize", "done"} /\ UsesKafka(fg)) => accepted = RowOrder(args.n_rows)

C2_Witness ==
    KafkaDone /\ accepted = RowOrder(MaxRows) /\ MaxRows >= 2 /\ bufErrs > 0

\* C3: once the acknowledgment callback has been invoked with a fatal code
\* (TOPIC_AUTHORIZATION_FAILED or _MSG_TIMED_OUT), the insert has raised, no
\* materialization job was run or scheduled in that call, and from then on the
\* call makes no further produce attempt, run or schedule.
C3_FatalRaised ==
    acks.fatal > 0 =>
        /\ pc = "raised" /\ exc \in CallbackExceptions
        /\ runs = <<>> /\ schedules = <<>> /\ result = "unset"
        /\ \A i \in 1..Len(log) : log[i] \notin {"run", "schedule", "get_offsets_low"}
\* C3, with what follows the fatal report: C3_FatalRaised always holds, and no
\* step of the same call submits a row, runs or schedules the job after it.
C3_FatalAbortsBatch ==
    /\ []C3_FatalRaised
    /\ [][(acks.fatal > 0 /\ calls' = calls) =>
            (accepted' = accepted /\ attempts' = attempts /\ outq' = outq
             /\ runs' = runs /\ schedules' = schedules /\ log' = log)]_vars

C3_Witness ==
    /\ acks.fatal > 0 /\ pc = "raised" /\ Len(accepted) < args.n_rows
    /\ ~fg.multi_part_insert /\ ~fg.external

\* C4: a delivery report whose code is not fatal raises nothing: a call that
\* served no fatal report (and was given an options dict) raises nothing out of
\* the acknowledgment callback, every row is submitted, the producer is flushed exactly when the
\* insert is not multi-part, and the job is run as the feature group, the
\* checkpoint before publishing and the options alone decide.
C4_NonFatalContinues ==
    /\ (acks.fatal = 0 /\ ~opts.is_none) => exc \notin CallbackExceptions
    /\ KafkaDone =>
         /\ accepted = RowOrder(args.n_rows)
         /\ acks.fatal = 0
         /\ Occurrences(log, "flush") = (IF fg.multi_part_insert THEN 0 ELSE 1)
         /\ Len(runs) = (IF fg.external THEN 0
                         ELSE IF cpBefore = EmptyCheckpoint /\ ~fg.multi_part_insert THEN 1
                         ELSE IF start_offline_materialization(opts) THEN 1 ELSE 0)

C4_Witness ==
    KafkaDone /\ acks.nonfatal > 0 /\ acks.ok > 0 /\ args.n_rows = MaxRows
    /\ Len(runs) = 1

\* the insert ran the materialization decision of a feature group that is not
\* external, outside a multi-part insert, and _write_dataframe_kafka returned
SingleInsertDone == KafkaDone /\ ~fg.external /\ ~fg.multi_part_insert
LogIndex(e) == CHOOSE i \in 1..Len(log) : log[i] = e
\* the executions the job had when this call reached the materialization decision
ExecutionsBefore == job.executions - Len(runs)

\* C5 (as claimed): once insert has run its gates on a feature group whose
\* declared, non-empty schema is incompatible with the dataframe's schema, a
\* schema mismatch was raised and the call initialised no Kafka resource,
\* published no row, deleted no content and ran no materialization job.
C5_SchemaGate ==
    (pc \notin {"insert", "save", "insert_stream"} /\ fg.features # EmptySchema
     /\ verify_schema_compatibility(fg.features, args.df_features) # None)
        => /\ pc = "raised" /\ exc = "SchemaMismatch"
           /\ producer = 0 /\ accepted = <<>> /\ runs = <<>>
           /\ \A i \in 1..Len(log) :
                 log[i] \notin {"init_kafka_resources", "delete_content", "run"}

\* C6 (as claimed): in a multi-part insert the producer, the headers with their
\* online-ingestion record and the encoders are created once, by the first call,
\* and every call works with the objects cached on the feature group; outside a
\* multi-part insert nothing is stored on the feature group.
C6_SessionCaching ==
    IF fg.multi_part_insert
    THEN /\ Len(outq) <= 1 /\ created.writer_sets <= 1 /\ created.ingestions <= 1
         /\ producer # 0 => (producer = fg.kafka_producer /\ headers = fg.kafka_headers
                             /\ writers = fg.writers)
    ELSE fg.kafka_producer = 0 /\ fg.kafka_headers = NoHeaders /\ fg.writers = 0

\* C7: when a single (not multi-part) insert into a feature group that is not
\* external finds no topic before publishing (empty checkpoint), the job is run
\* exactly once, after the flush, whatever start_offline_materialization and
\* start_offline_backfill say.
C7_TopicDidNotExist ==
    (SingleInsertDone /\ cpBefore = EmptyCheckpoint)
        => /\ Len(runs) = 1
           /\ Occurrences(log, "run") = 1
           /\ LogIndex("flush") < LogIndex("run")

C7_Witness ==
    /\ SingleInsertDone /\ cpBefore = EmptyCheckpoint /\ Len(runs) = 1
    /\ opts.start_offline_materialization = "False" /\ args.n_rows > 0

\* C8: when the topic existed before publishing (non-empty checkpoint), a single
\* insert into a feature group that is not external runs the job once if the
\* options request offline materialization and not at all otherwise; the
\* request is start_offline_materialization if that key is present, else
\* start_offline_backfill if present, else true; it is true for no options.
C8_TopicExisted ==
    /\ (SingleInsertDone /\ cpBefore # EmptyCheckpoint) =>
          LET requested ==
                 IF opts.start_offline_materialization # "absent"
                 THEN opts.start_offline_materialization = "True"
                 ELSE IF opts.start_offline_backfill # "absent"
                      THEN opts.start_offline_backfill = "True"
                      ELSE TRUE
          IN /\ Len(runs) = (IF requested THEN 1 ELSE 0)
             /\ Occurrences(log, "run") = Len(runs)
    /\ opts.is_none => start_offline_materialization(opts)

C8_Witness ==
    /\ SingleInsertDone /\ cpBefore # EmptyCheckpoint /\ runs = <<>>
    /\ opts.start_offline_materialization = "absent"
    /\ opts.start_offline_backfill = "False"

\* C9 (as claimed): when the job is run after an insert that found the topic,
\* its arguments carry the checkpoint captured before publishing, unless the job
\* had no execution before, in which case the argument is left out.
C9_Original ==
    (SingleInsertDone /\ cpBefore # EmptyCheckpoint /\ Len(runs) = 1)
        => /\ runs[1].has_check_point <=> ExecutionsBefore > 0
           /\ runs[1].has_check_point => runs[1].check_point = cpBefore

\* C9 (amended): when the job is run after an insert that found the topic, its
\* arguments carry -initialCheckPointString with the checkpoint captured before
\* publishing exactly when the job had no execution before or the options set
\* skip_offsets; when the job has a last execution and skip_offsets is not set
\* the argument is left out.
C9_ResumeCheckpoint ==
    (SingleInsertDone /\ cpBefore # EmptyCheckpoint /\ Len(runs) = 1)
        => /\ runs[1].has_check_point <=> (opts.skip_offsets \/ ExecutionsBefore = 0)
           /\ runs[1].has_check_point => runs[1].check_point = cpBefore
           /\ ~runs[1].has_check_point => runs[1].check_point = EmptyCheckpoint

C9_Witness ==
    /\ SingleInsertDone /\ cpBefore # EmptyCheckpoint /\ Len(runs) = 1
    /\ ExecutionsBefore = 0 /\ ~opts.skip_offsets /\ runs[1].check_point = cpBefore
    /\ acks.ok > 0

\* C10 (as claimed): a single insert that finds no topic captures the empty
\* checkpoint before publishing and runs the job with arguments that hold no
\* -initialCheckPointString.
C10_Original ==
    (SingleInsertDone /\ cpBefore = EmptyCheckpoint)
        => (Len(runs) = 1 /\ ~runs[1].has_check_point)

\* C10 (amended): a single insert that finds no topic captures the empty
\* checkpoint before publishing and runs the job once; the arguments carry
\* -initialCheckPointString with the low watermarks of the topic as it is after
\* the flush, and hold no such argument only if the topic still does not exist.
C10_FirstInsert ==
    /\ (pc = "rows" /\ row = 0 /\ attempts = 0 /\ ~fg.multi_part_insert)
          => (cpBefore = EmptyCheckpoint <=> ~broker.exists)
    /\ (SingleInsertDone /\ cpBefore = EmptyCheckpoint)
          => /\ Len(runs) = 1
             /\ runs[1].has_check_point <=> broker.exists
             /\ broker.exists =>
                   runs[1].check_point =
                      <<TopicName, <<0, broker.low[0]>>, <<1, broker.low[1]>>>>

C10_Witness ==
    /\ SingleInsertDone /\ cpBefore = EmptyCheckpoint /\ Len(runs) = 1
    /\ runs[1].has_check_point /\ acks.ok = MaxRows /\ broker.high[0] > broker.low[0]

\* the current call published its rows and took the materialization decision
PastMaterialization == KafkaDone \/ (pc = "raised" /\ Len(runs) > 0)
\* the caller gave a usable backfill interval: a cron string or a number of hours
IntervalConfigured == optsBefore.offline_backfill_every_hr \notin {"absent", "falsy"}

\* the transformation step of insert, on every dataframe and binding list
\* within the bounds; the rest of the call has not begun
IdleScenario ==
    Scenario(FeatureGroup(TRUE, SchemaA, FALSE, TRUE, TRUE, FALSE),
             Arguments("transform", SchemaA, 0, FALSE, None, FALSE),
             EmptyOptions, NoTopic, [executions |-> 0])
InitTransform ==
    /\ InitFrom({IdleScenario})
    /\ enc = NoEncoding
    /\ component_resources = NoComponentResources
    /\ \E tfs \in BindingLists, columns \in Dataframes :
          tr = [NoTransform EXCEPT
                  !.pc = "transform", !.transformation_functions = tfs,
                  !.columns = columns,
                  !.dataframe_features = parse_schema_feature_group(columns),
                  !.dataframe = columns, !.before = columns,
                  !.values = [c \in ToSet(columns) |-> "dataframe"]]
NextTransform ==
    \/ ApplyTransformation
    \/ DropFeatures
    \/ UpdateSchema
SpecTransform == InitTransform /\ [][NextTransform]_vars

\* encode_row called up to MaxEncodes times on one row dict
RowValues ==
    {Value("str", "x"), Value("NA", "<NA>"), Value("None", "null"),
     Value("Timestamp", "2024-01-01 00:00:00"),
     Value("Timestamp_tz", "2024-01-01 00:00:00"),
     Value("datetime", "2024-01-01 00:00:00"),
     Value("datetime_tz", "2024-01-01 00:00:00")}
ArrayValues ==
    {Value("ndarray", "1, 2"), Value("list", "1, 2"), Value("None", "null"),
     Value("NA", "<NA>")}
InitEncode ==
    /\ InitFrom({IdleScenario})
    /\ tr = NoTransform
    /\ component_resources = NoComponentResources
    /\ \E a \in RowValues, b \in ArrayValues, c \in ArrayValues,
          w \in {<<>>, <<"b">>, <<"b", "c">>, <<"c", "b">>} :
          /\ w = <<>> => (b.t = "None" /\ c.t = "None")
          /\ enc = [feature_writers |-> w,
                    row |-> [k \in {"a", "b", "c"} |->
                                IF k = "a" THEN a ELSE IF k = "b" THEN b ELSE c],
                    out |-> <<>>]
NextEncode == EncodeRow
SpecEncode == InitEncode /\ [][NextEncode]_vars

\* a ComponentResources object on its own: constructed, then assigned to
\* through its properties in any order
InitResources ==
    /\ InitFrom({IdleScenario})
    /\ tr = NoTransform
    /\ enc = NoEncoding
    /\ \E n \in InstanceCounts, r \in ResourceValues, l \in ResourceValues :
          component_resources =
              [pc |-> "constructed", self |-> ComponentResources(n, r, l),
               property |-> None, value |-> None,
               before |-> ComponentResources(n, r, l)]
NextResources ==
    \/ SetNumInstances
    \/ SetRequests
    \/ SetLimits
SpecResources == InitResources /\ [][NextResources]_vars

\* C11 (as claimed): within one insert the job is scheduled at most once; once the
\* insert has taken the materialization decision, it has scheduled the job if
\* and only if the topic did not exist before publishing, the insert is not
\* multi-part, the feature group is not external and the caller configured a
\* backfill interval; the schedule call follows the job run, and there is none
\* when the topic existed.
C11_RecurringSchedule ==
    /\ Len(schedules) <= 1
    /\ Occurrences(log, "schedule") = Len(schedules)
    /\ PastMaterialization =>
          (Len(schedules) = 1 <=>
              (cpBefore = EmptyCheckpoint /\ ~fg.multi_part_insert /\ ~fg.external
               /\ IntervalConfigured))
    /\ Len(schedules) = 1 =>
          (Occurrences(log, "run") = 1 /\ LogIndex("run") < LogIndex("schedule"))
    /\ (cpBefore # EmptyCheckpoint) => schedules = <<>>

\* the checkpoint string of broker b for the low or the high watermarks
Watermarks(b, high) ==
    <<TopicName, <<0, IF high THEN b.high[0] ELSE b.low[0]>>,
                 <<1, IF high THEN b.high[1] ELSE b.low[1]>>>>
\* _write_dataframe_kafka has just captured the checkpoint before publishing
CheckpointCaptured ==
    pc = "rows" /\ row = 0 /\ attempts = 0 /\ ~fg.multi_part_insert

C13_OffsetsResult ==
    /\ \A high \in BOOLEAN :
          LET r == kafka_get_offsets(broker, high)
          IN /\ r = EmptyCheckpoint <=> ~broker.exists
             /\ broker.exists =>
                   /\ r[1] = TopicName
                   /\ Len(r) = 1 + Cardinality(Partitions)
                   /\ \A p \in Partitions :
                         Cardinality({i \in 2..Len(r) : r[i][1] = p}) = 1
                   /\ \A i \in 2..Len(r) :
                         r[i][2] = IF high THEN broker.high[r[i][1]]
                                   ELSE broker.low[r[i][1]]
    /\ CheckpointCaptured =>
          initial_check_point =
             (IF broker.exists THEN Watermarks(broker, TRUE) ELSE EmptyCheckpoint)
    /\ (SingleInsertDone /\ cpBefore = EmptyCheckpoint) =>
          initial_check_point =
             (IF broker.exists THEN Watermarks(broker, FALSE) ELSE EmptyCheckpoint)

C13_Witness ==
    /\ CheckpointCaptured /\ initial_check_point # EmptyCheckpoint
    /\ broker.low[0] > 0 /\ broker.high[0] > broker.low[0]
    /\ initial_check_point = Watermarks(broker, TRUE)

\* the call is past the schema gate: the metadata was saved, or the dataframe
\* matched the schema of the saved feature group insert was called on
SchemaGatePassed ==
    /\ pc \notin {"insert", "save"}
    /\ \/ Occurrences(log, "save") > 0
       \/ (args.entry = "insert" /\ fg.id
           /\ verify_schema_compatibility(fg.features, args.df_features) = None)

\* C14: when the validation gate answers with a REJECTED report, insert raises
\* DataValidationException and save returns no job with the report; neither
\* initialises a producer, publishes a row, deletes content, uploads the
\* dataframe or runs a job.
C14_ValidationRejection ==
    (SchemaGatePassed /\ args.ge_rejected)
        => /\ args.entry = "insert" => (pc = "raised" /\ exc = "DataValidationException")
           /\ args.entry = "save" => (pc = "rejected" /\ exc = None /\ result = "None")
           /\ producer = 0 /\ accepted = <<>> /\ runs = <<>> /\ outq = <<>>
           /\ \A i \in 1..Len(log) : log[i] = "save"

C14_Witness ==
    /\ pc = "rejected" /\ args.ge_rejected /\ Occurrences(log, "save") = 1
    /\ UsesKafka(fg) /\ args.n_rows > 0

\* C15 (as claimed): when insert or save has raised before any row was handed
\* to the producer, for a cause other than a rejected validation, the call has
\* saved no feature-group metadata and deleted no content.
C15_NoPartialWrites ==
    (pc = "raised" /\ accepted = <<>> /\ attempts = 0
     /\ exc # "DataValidationException")
        => \A i \in 1..Len(log) : log[i] \notin {"save", "delete_content"}

\* C16 (as claimed): insert_stream fails at once, and when it has failed the
\* call has saved no feature-group metadata, created no producer and written
\* no (empty) dataframe.
C16_StreamUnsupported ==
    args.entry = "insert_stream"
        => /\ pc \in {"insert_stream", "raised"}
           /\ pc = "raised" => (log = <<>> /\ producer = 0 /\ runs = <<>>)

\* C17 (as claimed): two calls that run interleaved over one feature group
\* never hold the same producer, headers record or encoders, and while a call
\* of a multi-part insert is publishing, the producer cached on the feature
\* group is the one it obtained (no other call has overwritten the field).
C17_SessionIsolation ==
    /\ (producer # 0 /\ other.producer # 0)
          => /\ producer # other.producer
             /\ writers # other.writers
             /\ fg.online_enabled => headers.ingestion # other.headers.ingestion
    /\ (pc \in {"rows", "materialize"} /\ fg.multi_part_insert)
          => (fg.kafka_producer = producer /\ fg.writers = writers)

\* the synchronous waits of the current call: job runs awaited, and waits for
\* the completion of the online ingestion
AwaitedRuns == Cardinality({i \in 1..Len(runs) : runs[i].await_termination})
IngestionWaits == Occurrences(log, "wait_for_completion")

\* C18 (as claimed): one _write_dataframe_kafka call blocks on at most one of
\* the termination of the job and the completion of the online ingestion.
C18_Original == AwaitedRuns + IngestionWaits <= 1

\* C18 (amended): the two waits are independent. A call that returns has run
\* the job at most once, with await_termination equal to wait_for_job (false
\* when absent), and has waited for the completion of the online ingestion
\* exactly when the feature group is online enabled and not external and
\* wait_for_online_ingestion is set; with both options set it blocks on both,
\* first on the job, then on the online ingestion.
C18_SynchronousWaits ==
    /\ AwaitedRuns <= 1 /\ IngestionWaits <= 1
    /\ \A i \in 1..Len(runs) : runs[i].await_termination = optsBefore.wait_for_job
    /\ KafkaDone =>
          /\ IngestionWaits = (IF fg.online_enabled /\ ~fg.external
                                  /\ optsBefore.wait_for_online_ingestion
                               THEN 1 ELSE 0)
          /\ (AwaitedRuns = 1 /\ IngestionWaits = 1)
                => LogIndex("run") < LogIndex("wait_for_completion")
    /\ ~KafkaDone => IngestionWaits = 0

C18_Witness ==
    /\ KafkaDone /\ AwaitedRuns = 1 /\ IngestionWaits = 1
    /\ log[Len(log)] = "wait_for_completion"

\* C19: when _write_dataframe_kafka returns for an external feature group it
\* returns None, and for such a group it never runs or schedules the job nor
\* reads the low watermarks; for every other feature group it returns the
\* materialization job of the feature group.
C19_ReturnValue ==
    /\ KafkaDone =>
          result = (IF fg.external THEN "None" ELSE "materialization_job")
    /\ (fg.external /\ UsesKafka(fg)) =>
          /\ runs = <<>> /\ schedules = <<>>
          /\ \A i \in 1..Len(log) :
                log[i] \notin {"run", "schedule", "get_offsets_low", "warn"}
          /\ result \in {"unset", "None"}

C19_Witness ==
    /\ KafkaDone /\ fg.external /\ result = "None"
    /\ cpBefore = EmptyCheckpoint /\ acks.ok = 1
    /\ optsBefore.start_offline_materialization = "True"
    /\ optsBefore.offline_backfill_every_hr = "int"

FeatureNames(features) == [i \in 1..Len(features) |-> features[i].name]
NoDuplicates(seq) == \A i, j \in 1..Len(seq) : seq[i] = seq[j] => i = j

\* C20 (as claimed): after the bindings were applied to a dataframe and the
\* schema parsed from that dataframe was updated with the same bindings, the
\* feature names of the schema are the columns of the transformed dataframe,
\* each exactly once.
C20_SchemaAgreement ==
    tr.pc = "done"
        => /\ NoDuplicates(FeatureNames(tr.dataframe_features))
           /\ ToSet(FeatureNames(tr.dataframe_features)) = ToSet(tr.dataframe)

\* how often a name occurs among the columns, and where it stands
CountOf(columns, c) == Cardinality({i \in DOMAIN columns : columns[i] = c})
PositionOf(columns, c) == CHOOSE i \in DOMAIN columns : columns[i] = c
\* the binding applied last, the columns it overwrote and those it left alone
LastApplied == tr.transformation_functions[tr.k]
Overwritten == ToSet(LastApplied.output_column_names) \cap ToSet(tr.before)
NotOverwritten == ToSet(tr.before) \ ToSet(LastApplied.output_column_names)
JustApplied == tr.pc = "transform" /\ tr.k > 0

\* C21 (as claimed): after a binding is applied, every column it overwrote
\* exists exactly once, holds the output of the function, and stands after
\* every column the binding did not overwrite, and the columns it did not
\* overwrite keep their relative order
C21_OverwrittenLast ==
    JustApplied =>
        /\ \A c \in Overwritten :
              /\ CountOf(tr.dataframe, c) = 1
              /\ tr.values[c] = LastApplied.function_name
              /\ \A d \in NotOverwritten :
                    PositionOf(tr.dataframe, d) < PositionOf(tr.dataframe, c)
        /\ SelectSeq(tr.dataframe, LAMBDA c : c \in NotOverwritten)
              = SelectSeq(tr.before, LAMBDA c : c \in NotOverwritten)

\* the union of the dropped-feature sets of the bindings
DroppedUnion(tfs) == UNION {tfs[k].dropped_features : k \in 1..Len(tfs)}
SchemaUpdated == tr.pc = "done"

\* C22 (as claimed): no feature of the schema returned by
\* _update_feature_group_schema_on_demand_transformations has a name that is
\* in the union of the dropped-feature sets of the bindings
C22_DroppedNeverInSchema ==
    SchemaUpdated =>
        ToSet(FeatureNames(tr.dataframe_features))
            \cap DroppedUnion(tr.transformation_functions) = {}

\* the features parsed from the dataframe as it was given, those of them that
\* no binding drops, and the number of outputs the bindings before k declare
GivenFeatures == parse_schema_feature_group(tr.columns)
KeptFeatures ==
    SelectSeq(GivenFeatures,
              LAMBDA feat : feat.name \notin DroppedUnion(tr.transformation_functions))
RECURSIVE OutputsBefore(_, _)
OutputsBefore(tfs, k) ==
    IF k <= 1 THEN 0
    ELSE OutputsBefore(tfs, k - 1) + Len(tfs[k - 1].output_column_names)

\* C23: the schema returned by
\* _update_feature_group_schema_on_demand_transformations is the given features
\* whose names are not dropped, in their order, followed by one on-demand
\* feature per declared output column, by binding order and then by output
\* position, each with the declared return type; with no bindings it is the
\* given list
C23_ReconciledOrder ==
    SchemaUpdated =>
        LET tfs == tr.transformation_functions
            schema == tr.dataframe_features
        IN IF tfs = <<>>
           THEN schema = GivenFeatures
           ELSE /\ Len(schema) = Len(KeptFeatures) + OutputsBefore(tfs, Len(tfs) + 1)
                /\ SubSeq(schema, 1, Len(KeptFeatures)) = KeptFeatures
                /\ \A k \in 1..Len(tfs) :
                     \A i \in 1..Len(tfs[k].output_column_names) :
                        schema[Len(KeptFeatures) + OutputsBefore(tfs, k) + i]
                            = [name |-> tfs[k].output_column_names[i],
                               type |-> tfs[k].return_types[i],
                               on_demand |-> TRUE]
\* two bindings, the second with two outputs, and a given feature dropped
C23_Witness ==
    /\ SchemaUpdated
    /\ Len(tr.transformation_functions) = 2
    /\ Len(tr.transformation_functions[2].output_column_names) = 2
    /\ Len(KeptFeatures) < Len(GivenFeatures)
    /\ Len(KeptFeatures) > 0
C23_WitnessNoBindings == SchemaUpdated /\ tr.transformation_functions = <<>>

\* the columns after the first j bindings were applied to the given columns,
\* and the features binding k declares that are not among the columns the
\* bindings before it leave
RECURSIVE ColumnsAfter(_, _, _)
ColumnsAfter(tfs, j, columns) ==
    IF j = 0 THEN columns ELSE apply_udf(tfs[j], ColumnsAfter(tfs, j - 1, columns))
MissingAt(k) ==
    tr.transformation_functions[k].transformation_features
        \ ToSet(ColumnsAfter(tr.transformation_functions, k - 1, tr.columns))
FailingBindings == {k \in 1..Len(tr.transformation_functions) : MissingAt(k) # {}}
FirstFailing == CHOOSE k \in FailingBindings : \A j \in FailingBindings : k <= j
NothingDelivered ==
    /\ accepted = <<>> /\ producer = 0 /\ log = <<>>
    /\ \A p \in Partitions : broker.high[p] = 0

\* C24: the bindings of a call are applied in order, each checked against the
\* columns the bindings before it leave. When a binding has a declared input
\* that is not among them, the call raises FeatureStoreException naming the
\* missing features and the function, with a message that tells an on-demand
\* from a model-dependent binding; that binding and the later ones are not
\* executed and no row is delivered. When no binding has, no such error is
\* raised and every binding is executed.
C24_MissingInputs ==
    tr.pc # "idle" =>
        IF FailingBindings = {}
        THEN tr.exc # "FeatureStoreException"
             /\ tr.k = Len(tr.transformation_functions)
        ELSE LET tf == tr.transformation_functions[FirstFailing]
             IN /\ tr.pc = "raised" /\ tr.exc = "FeatureStoreException"
                /\ pc = "raised" /\ exc = "FeatureStoreException"
                /\ tr.error.missing_features = MissingAt(FirstFailing)
                /\ tr.error.function_name = tf.function_name
                /\ (tf.transformation_type = "ON_DEMAND")
                     <=> (tr.error.message
                          = "not present in the dataframe being inserted into the feature group")
                /\ tr.k = FirstFailing - 1
                /\ tr.dataframe
                     = ColumnsAfter(tr.transformation_functions, tr.k, tr.columns)
                /\ NothingDelivered
\* the second binding lacks an input after the first was executed
C24_Witness ==
    /\ pc = "raised" /\ tr.pc = "raised" /\ tr.k = 1
    /\ tr.error.missing_features = {"c"}
\* the second binding reads the column the first one produced
C24_WitnessChained ==
    /\ tr.pc = "done" /\ tr.k = 2
    /\ tr.transformation_functions[2].transformation_features = {"c"}
    /\ "c" \notin ToSet(tr.columns)

\* C25 (as claimed): when encode_row was called twice on a row, the second
\* call returned the bytes the first one returned
C25_EncodeTwice ==
    (Len(enc.out) >= 2 /\ enc.out[1].exc = None)
        => /\ enc.out[2].exc = None
           /\ enc.out[2].encoded_row = enc.out[1].encoded_row
\* for a row without complex features the second call does return them
C25_WithoutComplexFeatures ==
    (Len(enc.out) >= 2 /\ enc.feature_writers = <<>>)
        => /\ enc.out[1].exc = None /\ enc.out[2].exc = None
           /\ enc.out[2].encoded_row = enc.out[1].encoded_row

\* the feature group declares primary keys and a row was handed to the producer
KeyedRowSent == fg.primary_key # <<>> /\ sent # <<>>

\* C26 (as claimed): for a feature group that declares at least one primary key
\* the key of every message handed to the producer is a non-empty string
C26_NonEmptyKey ==
    fg.primary_key # <<>> => \A i \in DOMAIN sent : sent[i].key # ""

\* the primary keys in the other order of declaration
Reversed(seq) == [i \in 1..Len(seq) |-> seq[Len(seq) + 1 - i]]
\* the values of the row as encode_row leaves them
PythonValues == [k \in DOMAIN args.values |-> to_python(args.values[k])]

\* C27: the key of every message is the string forms of the primary-key values
\* of its row, those of the names in lexicographic order, one after the other;
\* it is the key the row has when the primary keys are declared in the other
\* order
C27_KeyComposition ==
    \A i \in DOMAIN sent :
        /\ sent[i].key = assemble_key(PythonValues, Reversed(fg.primary_key))
        /\ ToSet(fg.primary_key) = {"a", "b"}
              => sent[i].key = str(PythonValues["a"]) \o str(PythonValues["b"])
        /\ fg.primary_key = <<"a">> => sent[i].key = str(PythonValues["a"])
\* a row sent with primary keys declared as b, a whose values differ
C27_Witness ==
    /\ sent # <<>> /\ fg.primary_key = <<"b", "a">>
    /\ str(PythonValues["a"]) # str(PythonValues["b"])
    /\ str(PythonValues["a"]) # ""

\* C28 (as claimed): every message carries the four headers
C28_FourHeaders ==
    \A i \in DOMAIN sent :
        sent[i].headers.keys = BaseHeaderKeys \cup {"onlineIngestionId"}

\* C28 (amended): every message carries the headers projectId, featureGroupId
\* and subjectId, and onlineIngestionId exactly when the feature group is
\* online enabled; each value is the UTF-8 encoding of the string form of the
\* id; all messages of one call carry the same headers
C28_MessageHeaders ==
    \A i \in DOMAIN sent :
        LET h == sent[i].headers
        IN /\ BaseHeaderKeys \subseteq h.keys
           /\ ("onlineIngestionId" \in h.keys) <=> fg.online_enabled
           /\ DOMAIN h.values = h.keys
           /\ \A k \in BaseHeaderKeys :
                 h.values[k] = encode_utf8(ToString(fg.header_ids[k]))
           /\ fg.online_enabled
                 => h.values["onlineIngestionId"] = encode_utf8(ToString(h.ingestion))
           /\ \A j \in DOMAIN sent : sent[j].headers = h
\* two rows were sent for a feature group that is not online enabled
C28_Witness == Len(sent) >= 2 /\ ~fg.online_enabled /\ fg.primary_key # <<>>

\* the remote calls that follow the publication of the rows
AfterPublication == {"get_offsets_low", "run", "schedule"}
Flushed == \E i \in 1..Len(log) : log[i] = "flush"

\* C29: an insert that is not multi-part and returns has flushed the producer
\* exactly once; when the flush is made every row has been submitted, and it
\* comes before every low-watermark query, job run and schedule registration
\* of the call; no row is submitted after it; a multi-part insert never
\* flushes
C29_FlushOrdering ==
    /\ [](/\ fg.multi_part_insert => ~Flushed
          /\ (KafkaDone /\ ~fg.multi_part_insert) => Occurrences(log, "flush") = 1
          /\ Flushed =>
                /\ Occurrences(log, "flush") = 1
                /\ row = args.n_rows /\ Len(sent) = args.n_rows /\ kp # "retry"
                /\ \A i \in 1..Len(log) :
                      log[i] \in AfterPublication => LogIndex("flush") < i)
    /\ [][Flushed => (sent' = sent /\ accepted' = accepted /\ row' = row)]_vars
\* an insert of several rows that flushed, ran the job and returned
C29_Witness ==
    /\ KafkaDone /\ ~fg.multi_part_insert /\ Flushed
    /\ args.n_rows >= 2 /\ Len(runs) > 0
\* a multi-part insert that published its rows and returned
C29_WitnessMultiPart ==
    KafkaDone /\ fg.multi_part_insert /\ args.n_rows >= 1

\* C30 (as claimed): in a multi-part insert as in any other, once the
\* acknowledgment callback received an authorization failure or a delivery
\* timeout, the call raises and the exception the caller gets is that
\* delivery error
C30_FatalErrorSurfaced ==
    acks.fatal > 0 => (pc = "raised" /\ exc = "KafkaError")
\* outside a multi-part insert the caller does get it
C30_SingleInsert ==
    (acks.fatal > 0 /\ ~fg.multi_part_insert) => (pc = "raised" /\ exc = "KafkaError")

\* the call took the branch of the materialization decision for a topic that
\* did not exist before publishing
TopicMissingBranch ==
    PastMaterialization /\ ~fg.external /\ ~fg.multi_part_insert
    /\ cpBefore = EmptyCheckpoint

\* C31: in the branch for a topic that did not exist, the low watermarks are
\* queried once, after the flush and before the job run; the run's
\* -initialCheckPointString is the result of that query (the low watermarks of
\* the topic as the flush left it), never the high watermarks where they differ
\* and never the checkpoint captured before publishing; the argument is left
\* out only if the query returned the empty string.
C31_FirstRunCheckpoint ==
    TopicMissingBranch =>
        /\ Len(runs) = 1
        /\ Occurrences(log, "get_offsets_low") = 1
        /\ LogIndex("flush") < LogIndex("get_offsets_low")
        /\ LogIndex("get_offsets_low") < LogIndex("run")
        /\ runs[1].check_point =
              (IF broker.exists THEN Watermarks(broker, FALSE) ELSE EmptyCheckpoint)
        /\ (broker.exists /\ broker.high # broker.low) =>
              runs[1].check_point # Watermarks(broker, TRUE)
        /\ runs[1].has_check_point => runs[1].check_point # cpBefore
        /\ ~runs[1].has_check_point <=> runs[1].check_point = EmptyCheckpoint

\* rows were delivered to the new topic, so the low and the high watermarks differ
C31_Witness ==
    /\ TopicMissingBranch /\ pc = "done" /\ runs[1].has_check_point
    /\ broker.high # broker.low /\ acks.ok > 0 /\ acks.nonfatal > 0
\* nothing was delivered: the topic still does not exist and the query is empty
C31_WitnessOmitted ==
    /\ TopicMissingBranch /\ pc = "done" /\ ~runs[1].has_check_point
    /\ args.n_rows > 0 /\ acks.nonfatal = args.n_rows

\* _apply_transformation_function returned a dataframe
Applied == tr.pc \in {"update_schema", "done"}

\* C32: while the bindings are being applied no column is dropped: every column
\* of the given dataframe, those an earlier binding lists as dropped included,
\* is still a column, so no binding misses a feature that was given; the
\* drop-set is dropped after the last binding has run, and the dataframe
\* returned is the columns the bindings left without every name in the union
\* of their dropped-feature sets.
C32_DeferredDrop ==
    LET tfs == tr.transformation_functions
    IN /\ tr.pc = "transform" =>
             /\ ToSet(tr.columns) \subseteq ToSet(tr.dataframe)
             /\ tr.dataframe = ColumnsAfter(tfs, tr.k, tr.columns)
       /\ (tr.pc = "raised" /\ tr.exc = "FeatureStoreException") =>
             tr.error.missing_features \cap ToSet(tr.columns) = {}
       /\ Applied =>
             /\ tr.k = Len(tfs)
             /\ ToSet(tr.dataframe) \cap DroppedUnion(tfs) = {}
             /\ tr.dataframe =
                   SelectSeq(ColumnsAfter(tfs, Len(tfs), tr.columns),
                             LAMBDA c : c \notin DroppedUnion(tfs))

\* the first binding lists as dropped the feature the second one reads
C32_Witness ==
    /\ Applied /\ Len(tr.transformation_functions) = 2
    /\ tr.transformation_functions[1].dropped_features
          \cap tr.transformation_functions[2].transformation_features # {}
    /\ tr.dataframe # <<>>

\* what the options say about offline materialization:
\* start_offline_materialization if present, else start_offline_backfill if
\* present, else true
MaterializationRequested ==
    IF opts.is_none THEN TRUE
    ELSE IF opts.start_offline_materialization # "absent"
         THEN opts.start_offline_materialization = "True"
         ELSE IF opts.start_offline_backfill # "absent"
              THEN opts.start_offline_backfill = "True"
              ELSE TRUE

\* C33: while the feature group is in multi-part insert mode a call of
\* _write_dataframe_kafka creates no consumer for a watermark query, before or
\* after publishing, holds the empty checkpoint throughout, and registers no
\* schedule; it runs the job at most once and only if the options request
\* offline materialization, with arguments that carry no
\* -initialCheckPointString; a chunk that returns for a feature group that is
\* not external has run the job exactly when the options request it.
C33_MultiPartChunk ==
    fg.multi_part_insert =>
        /\ consumers = <<>>
        /\ initial_check_point = EmptyCheckpoint /\ cpBefore = EmptyCheckpoint
        /\ schedules = <<>>
        /\ \A i \in 1..Len(log) :
              log[i] \notin {"get_offsets_low", "schedule", "warn"}
        /\ Len(runs) <= 1
        /\ Occurrences(log, "run") = Len(runs)
        /\ \A i \in 1..Len(runs) :
              /\ MaterializationRequested
              /\ ~runs[i].has_check_point
              /\ runs[i].check_point = EmptyCheckpoint
        /\ (KafkaDone /\ ~fg.external) =>
              (Len(runs) = 1 <=> MaterializationRequested)

\* a later chunk on an existing topic whose job has run before, with a
\* backfill interval and skip_offsets in the options
C33_Witness ==
    /\ fg.multi_part_insert /\ KafkaDone /\ Len(runs) = 1 /\ calls > 1
    /\ broker.exists /\ opts.skip_offsets /\ ExecutionsBefore > 0
    /\ opts.offline_backfill_every_hr = "int" /\ acks.ok > 0
\* a chunk whose options turn offline materialization off
C33_WitnessNotRequested ==
    /\ fg.multi_part_insert /\ KafkaDone /\ ~fg.external /\ runs = <<>>
    /\ ~MaterializationRequested /\ row > 0

\* insert has called save_dataframe
SaveDataframeCalled == operation # "unset"
\* the checks of insert that come before delete_content: the metadata was
\* saved or the dataframe agrees with the schema of the saved feature group,
\* the validation report is not REJECTED and online storage is not asked of a
\* group without it
InsertChecksPass ==
    /\ SchemaGatePassed
    /\ ~args.ge_rejected
    /\ fg.online_enabled \/ args.storage # "online"

\* C34: insert calls delete_content at most once, only with overwrite true and
\* only after the schema check, the validation gate and the online-storage
\* check have passed; the call comes before save_dataframe, hence before
\* anything of the write (producer, row, upload, job), and save_dataframe is
\* then handed bulk_insert; an insert that raises at one of the checks calls
\* neither, and without overwrite nothing is deleted and the caller's operation
\* is handed on.
C34_OverwriteOrdering ==
    args.entry = "insert" =>
        /\ Occurrences(log, "delete_content") <= 1
        /\ Occurrences(log, "delete_content") = 1 <=>
              (args.overwrite /\ SaveDataframeCalled)
        /\ Occurrences(log, "delete_content") = 1 =>
              /\ InsertChecksPass
              /\ operation = "bulk_insert"
              /\ \A i \in 1..Len(log) :
                    i < LogIndex("delete_content") => log[i] = "save"
        /\ (pc # "insert" /\ ~InsertChecksPass) =>
              /\ pc = "raised" /\ ~SaveDataframeCalled
              /\ producer = 0 /\ sent = <<>> /\ accepted = <<>>
        /\ ~SaveDataframeCalled => (producer = 0 /\ sent = <<>> /\ runs = <<>>)
        /\ (~args.overwrite /\ SaveDataframeCalled) => operation = args.operation

\* an overwriting insert that went on to publish its row
C34_Witness ==
    /\ args.entry = "insert" /\ args.overwrite /\ Len(sent) > 0
    /\ Occurrences(log, "delete_content") = 1 /\ operation = "bulk_insert"
    /\ pc = "done"
\* an overwriting insert stopped by the validation gate
C34_WitnessRejected ==
    /\ args.entry = "insert" /\ args.overwrite /\ args.ge_rejected
    /\ pc = "raised" /\ exc = "DataValidationException"

\* the call is past its transformation step, which did not raise; the feature
\* list it went on with holds on-demand features; the bindings were applied to
\* the dataframe
PastTransformation ==
    /\ args.entry \in {"save", "insert", "insert_stream"} /\ pc # args.entry
    /\ ~(pc = "raised" /\ exc = "FeatureStoreException" /\ log = <<>>)
    /\ tr.pc # "raised"
SchemaHasOnDemand ==
    \E i \in DOMAIN tr.dataframe_features : tr.dataframe_features[i].on_demand
TransformationApplied == tr.pc = "done"

\* C35 (as claimed): in save, insert and insert_stream alike, the feature list
\* of the dataframe holds the on-demand features of the bindings if and only
\* if the bindings were applied to the dataframe in that call
C35_SchemaTracksTransformation ==
    PastTransformation => (SchemaHasOnDemand <=> TransformationApplied)
\* insert alone keeps the two together
C35_InsertTracks ==
    (PastTransformation /\ args.entry = "insert")
        => (SchemaHasOnDemand <=> TransformationApplied)

\* C36 (as claimed): in the branch for a topic that did not exist, the warning
\* that the job runs even though start_offline_materialization was set to
\* False is emitted exactly when the options resolve offline materialization
\* to false, and not when they resolve it to true or leave the default
C36_ForcedWarning ==
    TopicMissingBranch =>
        (Occurrences(log, "warn") = 1 <=> ~MaterializationRequested)
\* what the code does: the warning goes with the options that ask for the run
C36_WarningWhenRequested ==
    /\ Occurrences(log, "warn") <= 1
    /\ TopicMissingBranch =>
          (Occurrences(log, "warn") = 1 <=> MaterializationRequested)
    /\ Occurrences(log, "warn") = 1 => LogIndex("warn") < LogIndex("run")

\* C37 (as claimed): every consumer created by a kafka_get_offsets call that
\* returned was closed before the return, whether the topic was listed or not
C37_ConsumerRelease ==
    \A i \in 1..Len(consumers) : consumers[i].returned => consumers[i].closed
\* on the path where the topic is listed the consumer is closed
C37_ClosedWhenListed ==
    \A i \in 1..Len(consumers) :
        /\ consumers[i].listed => consumers[i].closed
        /\ (consumers[i].returned /\ ~consumers[i].listed) => ~consumers[i].closed

\* the object after the last assignment and the object before it
AssignedTo(property) ==
    component_resources.pc = "assigned" /\ component_resources.property = property

\* C38 (as claimed): after a value was assigned through the setter of
\* num_instances, requests or limits, reading that property returns the value
\* and the other two properties read as they did before
C38_AccessorRoundTrip ==
    LET self == component_resources.self
        before == component_resources.before
        value == component_resources.value
    IN /\ AssignedTo("num_instances") =>
             /\ num_instances(self) = value
             /\ requests(self) = requests(before) /\ limits(self) = limits(before)
       /\ AssignedTo("requests") =>
             /\ requests(self) = value
             /\ num_instances(self) = num_instances(before)
             /\ limits(self) = limits(before)
       /\ AssignedTo("limits") =>
             /\ limits(self) = value
             /\ num_instances(self) = num_instances(before)
             /\ requests(self) = requests(before)
\* num_instances and limits do round-trip; an assignment to requests leaves
\* all three properties as they were and creates the attribute _resources
C38_RequestsUnchanged ==
    LET self == component_resources.self
        before == component_resources.before
        value == component_resources.value
    IN /\ AssignedTo("num_instances") =>
             /\ num_instances(self) = value
             /\ requests(self) = requests(before) /\ limits(self) = limits(before)
       /\ AssignedTo("limits") =>
             /\ limits(self) = value
             /\ num_instances(self) = num_instances(before)
             /\ requests(self) = requests(before)
       /\ AssignedTo("requests") =>
             /\ requests(self) = requests(before)
             /\ num_instances(self) = num_instances(before)
             /\ limits(self) = limits(before)
             /\ "_resources" \in self.attributes /\ self.resources = value

====
